---- MODULE Spec2Model ----
(***************************************************************************)
(* A model of the OSINT threat-intelligence pipeline (pipeline/src):       *)
(* IndicatorNormalizer, EnrichmentEngine and MergeDedupeEngine, with the   *)
(* pandas and ipaddress operations they rest on.                           *)
(*                                                                         *)
(* Encodings.  A Python str that the code inspects character by character  *)
(* (an indicator) is a sequence of one-character strings; every other str  *)
(* is a TLA+ string.  confidence is an integer number of thousandths       *)
(* (0.7 is 700).  A timestamp is a natural number, 0 standing for ''.      *)
(* A cell that may hold a list is [k, items]; a cell that may hold a       *)
(* number is [k, n, d] (the rational n/d); a dict is a function on its     *)
(* keys; a DataFrame is [cols, rows], every row a function on cols.        *)
(***************************************************************************)
EXTENDS Integers, Sequences, FiniteSets, TLC

VARIABLES
    pc,              \* where the component under analysis stands
    batch,           \* MergeDedupeEngine: the list of records handed over
    merged_data,     \* MergeDedupeEngine.process: the DataFrame returned
    detect_arg,      \* detect_indicator_type: its argument
    detect_result,   \* detect_indicator_type: what it returned
    all_data,        \* OSINTPipeline.collect_data: the raw items, by source
    normalized_data, \* OSINTPipeline.normalize_data: the DataFrame returned
    enriched_data,   \* EnrichmentEngine.enrich: the DataFrame returned
    score_batch,     \* ThreatScorer: the merged indicators handed over
    scored_data,     \* ThreatScorer.calculate_scores: the DataFrame returned
    dataset,         \* CorrelationEngine: the scored indicators handed over
    graph,           \* CorrelationEngine.graph
    metrics,         \* CorrelationEngine.build_graph: the metrics returned
    query,           \* find_related_indicators: its arguments, if called
    related,         \* find_related_indicators: the list returned
    trace,           \* OSINTPipeline.run_pipeline: the stages run so far
    files            \* the files the stages of the run have written

mergeVars == <<batch, merged_data>>
detectVars == <<detect_arg, detect_result>>
pipelineVars == <<all_data, normalized_data, enriched_data>>
scoreVars == <<score_batch, scored_data>>
graphVars == <<dataset, graph, metrics, query, related>>
runVars == <<trace, files>>
vars == <<pc, mergeVars, detectVars, pipelineVars, scoreVars, graphVars, runVars>>

----------------------------------------------------------------------------
(* Python values *)

NaN == "nan"        \* the missing value of a str column (float('nan'))
PyNone == "None"    \* None in a str column

ListCell(items) == [k |-> "list", items |-> items]
StrCell == [k |-> "str", items |-> <<>>]     \* '' where a list is expected
NaNCell == [k |-> "nan", items |-> <<>>]     \* NaN where a list is expected

Num(n) == [k |-> "num", n |-> n, d |-> 1]
StrNum == [k |-> "str", n |-> 0, d |-> 1]    \* '' where a number is expected
NaNNum == [k |-> "nan", n |-> 0, d |-> 1]    \* NaN where a number is expected
NoneNum == [k |-> "none", n |-> 0, d |-> 1]  \* None where a number is expected

ListColumns == {"tags", "ports", "services", "malware_families", "references"}
NumColumns == {"latitude", "longitude"}

\* What pandas puts in a cell whose record has no such key.
NaNOf(c) ==
    IF c \in ListColumns THEN NaNCell
    ELSE IF c \in NumColumns THEN NaNNum
    ELSE NaN

Range(s) == {s[i] : i \in 1..Len(s)}

\* pd.DataFrame(list of dicts): the columns are the union of the keys, and a
\* record without a key gets NaN there.
Columns(records) == UNION {DOMAIN records[i] : i \in 1..Len(records)}

DataFrame(records) ==
    [cols |-> Columns(records),
     rows |-> [i \in 1..Len(records) |->
                 [c \in Columns(records) |->
                    IF c \in DOMAIN records[i] THEN records[i][c] ELSE NaNOf(c)]]]

Empty(df) == Len(df.rows) = 0 \/ df.cols = {}

EmptyFrame == DataFrame(<<>>)

\* the variables of a component that is not under analysis
DetectIdle == detect_arg = <<>> /\ detect_result = ""
ScoreIdle == score_batch = <<>> /\ scored_data = EmptyFrame
\* nx.Graph(): nodes maps a node id to its attributes, edges an unordered pair
\* of node ids (one id for a self-loop) to the attributes of the edge, and
\* added lists the edges in the order add_edge created them, the order the
\* adjacency of a node lists its neighbours in
EmptyGraph == [nodes |-> <<>>, edges |-> <<>>, added |-> <<>>]
GraphIdle ==
    /\ dataset = <<>>
    /\ graph = EmptyGraph
    /\ metrics = <<>>
    /\ query = <<>>
    /\ related = <<>>
RunIdle == trace = <<>> /\ files = {}
PipelineIdle ==
    /\ all_data = <<>>
    /\ normalized_data = EmptyFrame
    /\ enriched_data = EmptyFrame

----------------------------------------------------------------------------
(* Orders Python puts on str values *)

\* The characters of the model's indicators, in code-point order.
Chars ==
    <<"\n", " ", "%", "-", ".", "/",
      "0", "1", "2", "3", "4", "5", "6", "7", "8", "9", ":",
      "A", "B", "C", "D", "E", "F", "G", "H", "P", "S", "T", "Z",
      "a", "b", "c", "d", "e", "f", "g", "h", "m", "o", "p", "s", "t", "x", "z">>

CharCode(c) == CHOOSE i \in 1..Len(Chars) : Chars[i] = c

\* s < t for two indicators (str.__lt__)
RECURSIVE StrLess(_, _)
StrLess(s, t) ==
    IF t = <<>> THEN FALSE
    ELSE IF s = <<>> THEN TRUE
    ELSE IF Head(s) = Head(t) THEN StrLess(Tail(s), Tail(t))
    ELSE CharCode(Head(s)) < CharCode(Head(t))

\* The str values of the type, asn, country and organization columns, sorted.
SortedStrings ==
    <<"", "AS15169", "AS3356", "Cloudflare", "DE", "Google", "None", "US",
      "domain", "hash_md5", "hash_sha1", "hash_sha256", "ip", "nan",
      "unknown", "url">>

StrRank(s) == CHOOSE i \in 1..Len(SortedStrings) : SortedStrings[i] = s

----------------------------------------------------------------------------
(* pandas Series reductions over one column of a group *)

Column(group, c) == [i \in 1..Len(group) |-> group[i][c]]

\* Series.unique(): the distinct values in order of first appearance
RECURSIVE Unique(_)
Unique(s) ==
    IF s = <<>> THEN <<>>
    ELSE LET rest == Unique(SubSeq(s, 1, Len(s) - 1))
         IN  IF s[Len(s)] \in Range(rest) THEN rest ELSE Append(rest, s[Len(s)])

\* Series.max() / Series.min() of a numeric column without NaN
SeriesMax(s) == CHOOSE v \in Range(s) : \A w \in Range(s) : w <= v
SeriesMin(s) == CHOOSE v \in Range(s) : \A w \in Range(s) : v <= w

\* Series.dropna() of a str column: NaN and None go, '' stays
DropNa(s) == SelectSeq(s, LAMBDA v : v # NaN /\ v # PyNone)

Count(s, v) == Cardinality({i \in 1..Len(s) : s[i] = v})

\* Series.mode(): the most frequent values, sorted ascending
Modes(s) == {v \in Range(s) : \A w \in Range(s) : Count(s, w) <= Count(s, v)}

ModeFirst(s) == CHOOSE v \in Modes(s) : \A w \in Modes(s) : StrRank(v) <= StrRank(w)

\* Series.mean() of an object column: '' cannot be summed (TypeError), NaN and
\* None are skipped, and the mean of nothing is NaN.
MeanRaises(s) == \E i \in 1..Len(s) : s[i].k = "str"

RECURSIVE GCD(_, _)
GCD(a, b) == IF b = 0 THEN a ELSE GCD(b, a % b)

Abs(x) == IF x < 0 THEN -x ELSE x

Rational(n, d) ==
    LET g == GCD(Abs(n), d) IN [k |-> "num", n |-> n \div g, d |-> d \div g]

RECURSIVE SumRat(_)
SumRat(s) ==
    IF s = <<>> THEN [n |-> 0, d |-> 1]
    ELSE LET r == SumRat(Tail(s))
         IN  [n |-> Head(s).n * r.d + r.n * Head(s).d, d |-> Head(s).d * r.d]

Mean(s) ==
    LET nums == SelectSeq(s, LAMBDA v : v.k = "num")
        total == SumRat(nums)
    IN  IF nums = <<>> THEN NaNNum
        ELSE Rational(total.n, total.d * Len(nums))

----------------------------------------------------------------------------
(* MergeDedupeEngine (merge_dedupe.py) *)

severity_order == [low |-> 0, medium |-> 1, high |-> 2, critical |-> 3]

\* mutant: the scale numbered from 1 while the reverse lookup starts at 0
SeverityRank_from_one(x) ==
    IF x \in DOMAIN severity_order THEN severity_order[x] + 1 ELSE 0

SeverityRank(x) == IF x \in DOMAIN severity_order THEN severity_order[x] ELSE 0

reverse_severity(v) ==
    IF \E k \in DOMAIN severity_order : severity_order[k] = v
    THEN CHOOSE k \in DOMAIN severity_order : severity_order[k] = v
    ELSE "medium"

\* mutant: the lowest severity of the group instead of the highest
calculate_merged_severity_min(group) ==
    LET ranks == [i \in 1..Len(group) |-> SeverityRank(group[i].severity)]
    IN  reverse_severity(SeriesMin(ranks))

calculate_merged_severity(group) ==
    LET ranks == [i \in 1..Len(group) |-> SeverityRank(group[i].severity)]
    IN  reverse_severity(SeriesMax(ranks))

\* mutant: all_items = items instead of all_items.extend(items)
merge_lists_overwrite(group, column) ==
    LET lists == {j \in 1..Len(group) : group[j][column].k = "list"}
    IN  IF lists = {} THEN {}
        ELSE Range(group[CHOOSE j \in lists : \A i \in lists : i <= j][column].items)

\* list(set(all_items)): the order of the result is that of a Python set, so
\* the result is kept as the set itself.
merge_lists(group, column) ==
    UNION {Range(group[i][column].items) :
             i \in {j \in 1..Len(group) : group[j][column].k = "list"}}

merge_tags(group) == merge_lists(group, "tags")

RECURSIVE Sum(_)
Sum(s) == IF s = <<>> THEN 0 ELSE Head(s) + Sum(Tail(s))

\* mutant: the mean of the confidences, as the project's narrative has it
merged_confidence_mean(group) ==
    Sum(Column(group, "confidence")) \div Len(group)

\* group['confidence'].max()
merged_confidence(group) == SeriesMax(Column(group, "confidence"))

\* mutant: the first value of the group instead of its mode
get_most_common_first(group, column) ==
    LET values == DropNa(Column(group, column))
    IN  IF values = <<>> THEN PyNone ELSE values[1]

get_most_common(group, column) ==
    LET values == DropNa(Column(group, column))
    IN  IF values = <<>> THEN PyNone ELSE ModeFirst(values)

\* The columns _merge_group reads with group[...] or row[...]: a missing one
\* is a KeyError.
MergeColumns ==
    {"source", "first_seen", "last_seen", "confidence", "severity", "tags",
     "description", "asn", "country", "organization", "ports", "services",
     "malware_families", "references", "raw_data"}

merge_group_raises(cols, group) ==
    \/ ~(MergeColumns \subseteq cols)
    \/ "latitude" \in cols /\ MeanRaises(Column(group, "latitude"))
    \/ "longitude" \in cols /\ MeanRaises(Column(group, "longitude"))

LastIndex(s, v) == CHOOSE i \in 1..Len(s) : s[i] = v /\ \A j \in (i + 1)..Len(s) : s[j] # v

merge_group(cols, group, indicator, ind_type) ==
    [indicator |-> indicator,
     type |-> ind_type,
     sources |-> Unique(Column(group, "source")),
     source_count |-> Len(Unique(Column(group, "source"))),
     first_seen |-> SeriesMin(Column(group, "first_seen")),
     last_seen |-> SeriesMax(Column(group, "last_seen")),
     confidence |-> merged_confidence(group),
     severity |-> calculate_merged_severity(group),
     tags |-> merge_tags(group),
     descriptions |-> Unique(Column(group, "description")),
     asn |-> get_most_common(group, "asn"),
     country |-> get_most_common(group, "country"),
     organization |-> get_most_common(group, "organization"),
     latitude |-> IF "latitude" \in cols THEN Mean(Column(group, "latitude")) ELSE NoneNum,
     longitude |-> IF "longitude" \in cols THEN Mean(Column(group, "longitude")) ELSE NoneNum,
     ports |-> merge_lists(group, "ports"),
     services |-> merge_lists(group, "services"),
     malware_families |-> merge_lists(group, "malware_families"),
     references |-> merge_lists(group, "references"),
     raw_data_sources |->
        [s \in Range(Column(group, "source")) |->
            group[LastIndex(Column(group, "source"), s)].raw_data]]

\* enriched_data.groupby(['indicator', 'type']): one group per key, the keys
\* sorted, a row whose key holds NaN in no group.
GroupKey(row) == <<row.indicator, row.type>>

GroupKeys(df) ==
    {GroupKey(df.rows[i]) : i \in {j \in 1..Len(df.rows) : df.rows[j].type # NaN}}

KeyLess(a, b) ==
    \/ StrLess(a[1], b[1])
    \/ a[1] = b[1] /\ StrRank(a[2]) < StrRank(b[2])

RECURSIVE SortedKeys(_)
SortedKeys(S) ==
    IF S = {} THEN <<>>
    ELSE LET first == CHOOSE a \in S : \A b \in S \ {a} : KeyLess(a, b)
         IN  <<first>> \o SortedKeys(S \ {first})

Group(df, key) == SelectSeq(df.rows, LAMBDA row : GroupKey(row) = key)

\* The loop of process: a group whose merge raises is logged and skipped.
merged_records(df) ==
    LET keys == SelectSeq(SortedKeys(GroupKeys(df)),
                          LAMBDA key : ~merge_group_raises(df.cols, Group(df, key)))
    IN  [i \in 1..Len(keys) |-> merge_group(df.cols, Group(df, keys[i]), keys[i][1], keys[i][2])]

\* groupby itself raises KeyError without its two key columns.
process_raises(df) == ~Empty(df) /\ ~({"indicator", "type"} \subseteq df.cols)

process(df) ==
    IF Empty(df) THEN df ELSE DataFrame(merged_records(df))

----------------------------------------------------------------------------
(* The records MergeDedupeEngine.process is called with *)

MaxBatch == 3

IP1 == <<"8", ".", "8", ".", "8", ".", "8">>
DOM1 == <<"a", ".", "c", "o", "m">>

\* The generic mapper types an indicator taken from the ip field "unknown",
\* so one indicator value occurs under two types.
MergeKeys == {<<IP1, "ip">>, <<IP1, "unknown">>, <<DOM1, "domain">>}

\* The shape _normalize_generic emits: ten keys.
BaseRecord(source, first_seen, last_seen, confidence, severity, tags, raw_data) ==
    [source |-> source, first_seen |-> first_seen, last_seen |-> last_seen,
     confidence |-> confidence, severity |-> severity, tags |-> tags,
     description |-> "", raw_data |-> raw_data]

\* The shape _normalize_alienvault emits: no latitude, no longitude.
AttrRecord(base, asn, country, organization, ports, services, others) ==
    base @@ [asn |-> asn, country |-> country, organization |-> organization,
             ports |-> ports, services |-> services,
             malware_families |-> others, references |-> others]

\* The shape of the mappers that fill every common field.
FullRecord(attr, latitude, longitude) ==
    attr @@ [latitude |-> latitude, longitude |-> longitude]

Variants ==
    << \* AlienVault: empty attributes, no coordinates
       AttrRecord(BaseRecord("alienvault", 3, 4, 700, "medium", ListCell(<<"scanning">>), 1),
                  "", "", "", ListCell(<<>>), ListCell(<<>>), ListCell(<<>>)),
       \* GreyNoise, enriched by the IP lookup
       FullRecord(AttrRecord(BaseRecord("greynoise", 1, 5, 900, "critical",
                                        ListCell(<<"c2", "scanning">>), 2),
                             "AS3356", "US", "Google",
                             ListCell(<<443>>), ListCell(<<"https">>), StrCell),
                  Num(40), Num(-74)),
       \* Shodan, enriched by the IP lookup
       FullRecord(AttrRecord(BaseRecord("shodan", 2, 6, 600, "low", ListCell(<<>>), 3),
                             "AS15169", "DE", "Cloudflare",
                             ListCell(<<80, 443>>), ListCell(<<"port_80", "https">>), StrCell),
                  Num(51), Num(9)),
       \* AbuseIPDB, the IP lookup having failed: latitude and longitude ''
       FullRecord(AttrRecord(BaseRecord("abuseipdb", 4, 7, 300, "high", ListCell(<<"c2">>), 4),
                             "", "US", "Google",
                             ListCell(<<>>), ListCell(<<>>), ListCell(<<>>)),
                  StrNum, StrNum),
       \* URLScan, through the generic mapper
       BaseRecord("urlscan", 7, 7, 500, "medium", ListCell(<<>>), 5),
       \* a record of another producer: severity off the scale, cells missing
       FullRecord(AttrRecord(BaseRecord("feed", 0, 8, 100, "", NaNCell, 6),
                             NaN, NaN, NaN, NaNCell, NaNCell, NaNCell),
                  NaNNum, NaNNum) >>

MergeRecord(key, variant) == [indicator |-> key[1], type |-> key[2]] @@ variant

MergeRecords == {MergeRecord(key, Variants[i]) : key \in MergeKeys, i \in 1..Len(Variants)}

MergeIdle == batch = <<>> /\ merged_data = EmptyFrame

InitMerge ==
    /\ pc = "collecting"
    /\ MergeIdle
    /\ DetectIdle
    /\ PipelineIdle
    /\ ScoreIdle
    /\ GraphIdle
    /\ RunIdle

\* The caller appends one more record to the list the DataFrame is made of.
AddRecord ==
    /\ pc = "collecting"
    /\ Len(batch) < MaxBatch
    /\ \E record \in MergeRecords : batch' = Append(batch, record)
    /\ UNCHANGED <<pc, merged_data, detectVars, pipelineVars, scoreVars, graphVars, runVars>>

\* merger.process(enriched_data)
Process ==
    /\ pc = "collecting"
    /\ pc' = IF process_raises(DataFrame(batch)) THEN "raised" ELSE "merged"
    /\ merged_data' = IF process_raises(DataFrame(batch)) THEN merged_data
                      ELSE process(DataFrame(batch))
    /\ UNCHANGED <<batch, detectVars, pipelineVars, scoreVars, graphVars, runVars>>

NextMerge == AddRecord \/ Process

SpecMerge == InitMerge /\ [][NextMerge]_vars

----------------------------------------------------------------------------
(* Properties of MergeDedupeEngine.process, stated over the records handed   *)
(* to it (batch) and the DataFrame it returned (merged_data).                *)

Merged == pc = "merged"

MergedRows == Range(merged_data.rows)

InputKeys == {GroupKey(batch[i]) : i \in 1..Len(batch)}

\* The records of the batch with the key of a merged row, in input order.
Contributors(key) == SelectSeq(batch, LAMBDA record : GroupKey(record) = key)

\* A record's value for a key it may not have.
Field(record, c) == IF c \in DOMAIN record THEN record[c] ELSE NaNOf(c)

RowsWithKey(key) == {i \in 1..Len(merged_data.rows) : GroupKey(merged_data.rows[i]) = key}

\* C1: for a non-empty batch, process returns exactly one merged record for
\* each distinct (indicator, type) pair of the input and none for any other
\* pair, and source_count is the number of distinct sources of the pair's
\* records, at least 1 and the size of sources.
C1_OneMergedRecordPerPair ==
    (Merged /\ batch # <<>>) =>
        /\ \A key \in InputKeys : Cardinality(RowsWithKey(key)) = 1
        /\ \A m \in MergedRows :
              /\ GroupKey(m) \in InputKeys
              /\ m.source_count =
                    Cardinality({Contributors(GroupKey(m))[i].source :
                                    i \in 1..Len(Contributors(GroupKey(m)))})
              /\ m.source_count >= 1
              /\ m.source_count = Cardinality(Range(m.sources))

Scale == <<"low", "medium", "high", "critical">>

OnScale(severity) == severity \in Range(Scale)

ScaleRank(severity) == CHOOSE i \in 1..Len(Scale) : Scale[i] = severity

\* C3, as claimed: the severity of every merged record is the highest
\* severity among the records of its group, whatever their severity values:
\* it is the severity of one of them, and no record of the group has a
\* severity on the scale above it.
C3_SeverityIsHighestOfGroup ==
    Merged =>
        \A m \in MergedRows :
            LET group == Contributors(GroupKey(m))
            IN  /\ \E i \in 1..Len(group) : group[i].severity = m.severity
                /\ \A i \in 1..Len(group) :
                      OnScale(group[i].severity) =>
                          /\ OnScale(m.severity)
                          /\ ScaleRank(group[i].severity) <= ScaleRank(m.severity)

\* C3, amended: the severity of every merged record is on the scale and is
\* the highest severity of its group where a value off the scale counts as
\* low; a group with no severity on the scale merges to low.
C3_SeverityIsHighestOffScaleAsLow ==
    Merged =>
        \A m \in MergedRows :
            LET group == Contributors(GroupKey(m))
            IN  /\ OnScale(m.severity)
                /\ \A i \in 1..Len(group) :
                      OnScale(group[i].severity) =>
                          ScaleRank(group[i].severity) <= ScaleRank(m.severity)
                /\ \/ \E i \in 1..Len(group) : group[i].severity = m.severity
                   \/ m.severity = "low"

\* a merged record of a record off the scale and a record above low
C3_Witness ==
    /\ Merged
    /\ \E m \in MergedRows :
          \E i, j \in 1..Len(Contributors(GroupKey(m))) :
              /\ ~OnScale(Contributors(GroupKey(m))[i].severity)
              /\ OnScale(Contributors(GroupKey(m))[j].severity)
              /\ Contributors(GroupKey(m))[j].severity # "low"


AttrColumns == {"asn", "country", "organization"}

NonEmpty(values) == SelectSeq(values, LAMBDA v : v # NaN /\ v # PyNone /\ v # "")

\* The most frequent value of s, the first in s among those tied.
FirstMostFrequent(s) ==
    s[CHOOSE i \in 1..Len(s) :
        /\ \A j \in 1..Len(s) : Count(s, s[j]) <= Count(s, s[i])
        /\ \A j \in 1..(i - 1) : Count(s, s[j]) < Count(s, s[i])]

\* C4: each of asn, country and organization of a merged record is the most
\* frequent non-empty value among the records of its group, the first in
\* input order among values tied; '' is not chosen while a non-empty value
\* exists.
C4_MostFrequentNonEmptyFirstSeen ==
    Merged =>
        \A m \in MergedRows : \A c \in AttrColumns :
            LET group == Contributors(GroupKey(m))
                values == NonEmpty([i \in 1..Len(group) |-> Field(group[i], c)])
            IN  values # <<>> => m[c] = FirstMostFrequent(values)

RECURSIVE SetToSeq(_)
SetToSeq(S) ==
    IF S = {} THEN <<>>
    ELSE LET x == CHOOSE x \in S : TRUE IN <<x>> \o SetToSeq(S \ {x})

\* A merged record given back to process as the record of a single source.
Refeed(m) ==
    [indicator |-> m.indicator, type |-> m.type, source |-> "merged",
     first_seen |-> m.first_seen, last_seen |-> m.last_seen,
     confidence |-> m.confidence, severity |-> m.severity,
     tags |-> ListCell(SetToSeq(m.tags)), description |-> "", raw_data |-> 0,
     asn |-> m.asn, country |-> m.country, organization |-> m.organization,
     latitude |-> m.latitude, longitude |-> m.longitude,
     ports |-> ListCell(SetToSeq(m.ports)),
     services |-> ListCell(SetToSeq(m.services)),
     malware_families |-> ListCell(SetToSeq(m.malware_families)),
     references |-> ListCell(SetToSeq(m.references))]

Remerged ==
    process(DataFrame([i \in 1..Len(merged_data.rows) |-> Refeed(merged_data.rows[i])]))

\* C5: merging the output of process again, each merged record as the record
\* of a single source, yields the same (indicator, type) pairs, each with the
\* severity and the confidence the first merge gave it.
C5_MergeIsIdempotent ==
    Merged =>
        /\ {GroupKey(m) : m \in Range(Remerged.rows)} = {GroupKey(m) : m \in MergedRows}
        /\ Len(Remerged.rows) = Len(merged_data.rows)
        /\ \A m \in MergedRows : \E again \in Range(Remerged.rows) :
              /\ GroupKey(again) = GroupKey(m)
              /\ again.severity = m.severity
              /\ again.confidence = m.confidence

\* two merged records, one of them merged from several sources
C5_Witness ==
    /\ Merged
    /\ Len(merged_data.rows) >= 2
    /\ \E m \in MergedRows : m.source_count >= 2 /\ m.severity # "low"

Items(record, c) == Range(Field(record, c).items)

\* C6: tags, ports, services, malware_families and references of a merged
\* record each hold every element of that attribute of every record of the
\* group, and nothing else.
C6_ListsAreUnions ==
    Merged =>
        \A m \in MergedRows : \A c \in ListColumns :
            LET group == Contributors(GroupKey(m))
            IN  /\ \A i \in 1..Len(group) : Items(group[i], c) \subseteq m[c]
                /\ \A x \in m[c] : \E i \in 1..Len(group) : x \in Items(group[i], c)

\* a merged record of two records whose tags and ports overlap without being equal
C6_Witness ==
    /\ Merged
    /\ \E m \in MergedRows :
          \A c \in {"tags", "ports"} : \E i, j \in 1..Len(Contributors(GroupKey(m))) :
              LET a == Items(Contributors(GroupKey(m))[i], c)
                  b == Items(Contributors(GroupKey(m))[j], c)
              IN  a \cap b # {} /\ ~(a \subseteq b)

FailingKeys ==
    {key \in InputKeys :
        merge_group_raises(DataFrame(batch).cols, Group(DataFrame(batch), key))}

WithoutFailing == SelectSeq(batch, LAMBDA record : GroupKey(record) \notin FailingKeys)

\* C7: when the merge of a group raises, process does not raise and returns
\* one merged record for every other group, each with the values it would
\* have had, had the records of the failing groups not been in the input.
C7_FailingGroupAloneExcluded ==
    (pc \in {"merged", "raised"} /\ FailingKeys # {}) =>
        /\ pc = "merged"
        /\ \A key \in InputKeys \ FailingKeys : Cardinality(RowsWithKey(key)) = 1
        /\ \A key \in FailingKeys : RowsWithKey(key) = {}
        /\ merged_data.rows = process(DataFrame(WithoutFailing)).rows

----------------------------------------------------------------------------
(* IndicatorNormalizer.detect_indicator_type (normalization.py) *)

Digits == {"0", "1", "2", "3", "4", "5", "6", "7", "8", "9"}
HexDigits == Digits \cup {"a", "b", "c", "d", "e", "f", "A", "B", "C", "D", "E", "F"}
Letters ==
    {"A", "B", "C", "D", "E", "F", "G", "H", "P", "S", "T", "Z",
     "a", "b", "c", "d", "e", "f", "g", "h", "m", "o", "p", "s", "t", "x", "z"}
AlNum == Letters \cup Digits

\* str.split(sep)
RECURSIVE Split(_, _)
Split(s, sep) ==
    IF \A i \in 1..Len(s) : s[i] # sep THEN <<s>>
    ELSE LET i == CHOOSE k \in 1..Len(s) : s[k] = sep /\ \A j \in 1..(k - 1) : s[j] # sep
         IN  <<SubSeq(s, 1, i - 1)>> \o Split(SubSeq(s, i + 1, Len(s)), sep)

\* int(octet_str, 10) of a string of decimal digits
RECURSIVE DecimalValue(_)
DecimalValue(s) ==
    IF s = <<>> THEN 0
    ELSE 10 * DecimalValue(SubSeq(s, 1, Len(s) - 1)) + (CharCode(s[Len(s)]) - CharCode("0"))

\* IPv4Address._parse_octet raises: empty, not decimal digits, more than three
\* characters, a leading zero, above 255
parse_octet_raises(octet) ==
    \/ octet = <<>>
    \/ \E i \in 1..Len(octet) : octet[i] \notin Digits
    \/ Len(octet) > 3
    \/ (Len(octet) > 1 /\ octet[1] = "0")
    \/ DecimalValue(octet) > 255

\* IPv4Address(address) does not raise
IsIPv4(s) ==
    /\ "/" \notin Range(s)
    /\ s # <<>>
    /\ Len(Split(s, ".")) = 4
    /\ \A i \in 1..4 : ~parse_octet_raises(Split(s, ".")[i])

\* IPv6Address._parse_hextet raises: not hexadecimal, more than four
\* characters, or nothing for int(, 16) to read
parse_hextet_raises(hextet) ==
    \/ \E i \in 1..Len(hextet) : hextet[i] \notin HexDigits
    \/ Len(hextet) > 4
    \/ hextet = <<>>

\* IPv6Address._ip_int_from_string(ip_str) does not raise
IPv6Parses(ip_str) ==
    LET raw == Split(ip_str, ":")
        embedded == "." \in Range(raw[Len(raw)])
        \* an embedded IPv4 address is replaced by its two hextets
        parts == IF embedded
                 THEN SubSeq(raw, 1, Len(raw) - 1) \o << <<"0">>, <<"0">> >>
                 ELSE raw
        n == Len(parts)
        skips == {i \in 2..(n - 1) : parts[i] = <<>>}
        skip_index == (CHOOSE i \in skips : TRUE) - 1
        hi0 == skip_index
        lo0 == n - skip_index - 1
        parts_hi == IF skips = {} THEN n
                    ELSE IF parts[1] = <<>> THEN hi0 - 1 ELSE hi0
        parts_lo == IF skips = {} THEN 0
                    ELSE IF parts[n] = <<>> THEN lo0 - 1 ELSE lo0
    IN  /\ ip_str # <<>>
        /\ Len(raw) >= 3
        /\ embedded => IsIPv4(raw[Len(raw)])
        /\ n <= 9
        /\ Cardinality(skips) <= 1
        /\ IF skips # {}
           THEN /\ parts[1] = <<>> => parts_hi = 0
                /\ parts[n] = <<>> => parts_lo = 0
                /\ 8 - (parts_hi + parts_lo) >= 1
           ELSE /\ n = 8
                /\ parts[1] # <<>>
                /\ parts[n] # <<>>
        /\ \A i \in 1..parts_hi : ~parse_hextet_raises(parts[i])
        /\ \A i \in (n - parts_lo + 1)..n : ~parse_hextet_raises(parts[i])

\* IPv6Address(address) does not raise: no '/', a scope id after the first
\* '%' that is not empty and holds no other '%'
IsIPv6(s) ==
    LET at == {i \in 1..Len(s) : s[i] = "%"}
        sep == CHOOSE i \in at : \A j \in at : i <= j
    IN  /\ "/" \notin Range(s)
        /\ IF at = {} THEN IPv6Parses(s)
           ELSE /\ sep < Len(s)
                /\ Cardinality(at) = 1
                /\ IPv6Parses(SubSeq(s, 1, sep - 1))

\* ipaddress.ip_address(indicator) does not raise ValueError
ip_address_accepts(s) == IsIPv4(s) \/ IsIPv6(s)

\* str.lower() on the letters of the scheme
Lower(c) ==
    CASE c = "H" -> "h" [] c = "T" -> "t" [] c = "P" -> "p" [] c = "S" -> "s"
      [] OTHER -> c

StartsWith(s, prefix) ==
    /\ Len(s) >= Len(prefix)
    /\ \A i \in 1..Len(prefix) : Lower(s[i]) = prefix[i]

\* re.match(r'^https?://', indicator, re.IGNORECASE)
MatchesUrl(s) ==
    \/ StartsWith(s, <<"h", "t", "t", "p", ":", "/", "/">>)
    \/ StartsWith(s, <<"h", "t", "t", "p", "s", ":", "/", "/">>)

\* [a-zA-Z0-9]([a-zA-Z0-9-]{0,61}[a-zA-Z0-9])?
FirstLabel(label) ==
    /\ Len(label) \in 1..63
    /\ label[1] \in AlNum
    /\ label[Len(label)] \in AlNum
    /\ \A i \in 1..Len(label) : label[i] \in AlNum \cup {"-"}

\* [a-zA-Z]{2,}
AlphaLabel(label) ==
    /\ Len(label) >= 2
    /\ \A i \in 1..Len(label) : label[i] \in Letters

\* [a-zA-Z0-9]([a-zA-Z0-9-]{0,61}[a-zA-Z0-9])?(\.[a-zA-Z]{2,})+ over the whole of s
DomainPattern(s) ==
    LET labels == Split(s, ".")
    IN  /\ Len(labels) >= 2
        /\ FirstLabel(labels[1])
        /\ \A i \in 2..Len(labels) : AlphaLabel(labels[i])

\* [a-fA-F0-9]{n} over the whole of s
HexPattern(n, s) == Len(s) = n /\ \A i \in 1..n : s[i] \in HexDigits

\* '$' matches at the end of the string and also just before a newline that
\* ends it
EndsWithNewline(s) == Len(s) > 0 /\ s[Len(s)] = "\n"

BeforeNewline(s) == SubSeq(s, 1, Len(s) - 1)

\* re.match(r'^[a-zA-Z0-9]([a-zA-Z0-9-]{0,61}[a-zA-Z0-9])?(\.[a-zA-Z]{2,})+$', s)
MatchesDomain(s) ==
    \/ DomainPattern(s)
    \/ EndsWithNewline(s) /\ DomainPattern(BeforeNewline(s))

\* re.match(r'^[a-fA-F0-9]{n}$', s)
MatchesHex(n, s) ==
    \/ HexPattern(n, s)
    \/ EndsWithNewline(s) /\ HexPattern(n, BeforeNewline(s))

detect_indicator_type(indicator) ==
    IF ip_address_accepts(indicator) THEN "ip"
    ELSE IF MatchesUrl(indicator) THEN "url"
    ELSE IF MatchesDomain(indicator) THEN "domain"
    ELSE IF MatchesHex(32, indicator) THEN "hash_md5"
    ELSE IF MatchesHex(40, indicator) THEN "hash_sha1"
    ELSE IF MatchesHex(64, indicator) THEN "hash_sha256"
    ELSE "unknown"

\* ---- the strings detect_indicator_type is given ----

MaxHexLen == 65

HexCycle ==
    <<"d", "4", "1", "D", "8", "c", "d", "9", "8", "F", "0", "0", "b", "2", "0", "4", "e">>

\* n hexadecimal characters
HexRun(n) == [i \in 1..n |-> HexCycle[((i - 1) % Len(HexCycle)) + 1]]

DetectSamples ==
    {<<"1", ".", "1", ".", "1", ".", "1">>,
     <<"8", ".", "8", ".", "8", ".", "8">>,
     <<"2", "5", "5", ".", "0", ".", "0", ".", "1">>,
     <<"2", "5", "6", ".", "0", ".", "0", ".", "1">>,
     <<"0", "1", ".", "1", ".", "1", ".", "1">>,
     <<"1", ".", "1", ".", "1">>,
     <<"1", ".", "1", ".", "1", ".", "1", ".", "1">>,
     <<":", ":", "1">>,
     <<":", ":">>,
     <<"1", ":", ":">>,
     <<"1", ":", "2", ":", "3", ":", "4", ":", "5", ":", "6", ":", "7", ":", "8">>,
     <<":", ":", "f", "f", "f", "f", ":", "1", ".", "2", ".", "3", ".", "4">>,
     <<"f", "e", "8", "0", ":", ":", "1", "%", "e", "t", "h", "0">>,
     <<"1", ":", ":", ":", "2">>,
     <<"1", "2", "3", "4", "5", ":", ":">>,
     <<"g", ":", ":">>,
     <<"1", ":", "2", ":", "3", ":", "4", ":", "5", ":", "6", ":", "7", ":", "8", ":", ":">>,
     <<":", "1", ":", ":">>,
     <<":", ":", "1", ":">>,
     <<"1", ":", "2", ":", "3", ":", "4", ":", "5", ":", "6", ":", "7", ":", ":">>,
     <<"f", "e", "8", "0", ":", ":", "1", "%">>,
     <<"1", ":", ":", "2", ":", ":", "3">>,
     <<":", ":", "1", ".", "2", ".", "3">>,
     <<":", ":", "f", "f", "f", "f", ":", "1", ".", "2", ".", "3", ".", "4", ".", "5">>,
     <<"a">>,
     <<"a", "-", "b">>,
     <<"a", "-">>,
     <<"-", "a">>,
     <<"a", ".", "c">>,
     <<"a", ".">>,
     <<"a", ".", "b">>,
     <<"a", ".", "b", "1">>,
     <<"d", "e", "a", "d", ".", "b", "e", "e", "f">>,
     <<"t", "e", "s", "t">>,
     <<"a", " ", "b">>,
     <<"a", "b", "c">>,
     <<"z", "z">>,
     <<"/", "/", "a">>,
     <<"/", "a">>,
     <<"s", ":", "/", "/", "a">>,
     <<"x", ":", "/", "/", "a">>,
     <<"f", "t", "p", ":", "/", "/", "a">>,
     <<"H", "T", "T", "P", ":", "/", "/", "a">>,
     <<"H", "t", "t", "p", "S", ":", "/", "/", "a">>,
     <<":", "/", "a">>,
     <<" ">>}

DetectPrefixes ==
    {<<>>, <<" ">>, <<"h", "t", "t", "p", ":", "/", "/">>,
     <<"h", "t", "t", "p", "s", ":", "/", "/">>, <<"h", "t", "t", "p">>}

DetectSuffixes ==
    {<<>>, <<"\n">>, <<"\n", "\n">>, <<".", "c", "o", "m">>,
     <<".", "c", "o", "m", "\n">>, <<".", "c", "o", "m", ".">>}

DetectInputs ==
    {prefix \o body \o suffix :
        prefix \in DetectPrefixes,
        body \in DetectSamples \cup {HexRun(n) : n \in 0..MaxHexLen},
        suffix \in DetectSuffixes}

InitDetect ==
    /\ pc = "detect"
    /\ detect_arg \in DetectInputs
    /\ detect_result = ""
    /\ MergeIdle
    /\ PipelineIdle
    /\ ScoreIdle
    /\ GraphIdle
    /\ RunIdle

\* self.detect_indicator_type(indicator)
Detect ==
    /\ pc = "detect"
    /\ detect_result' = detect_indicator_type(detect_arg)
    /\ pc' = "detected"
    /\ UNCHANGED <<detect_arg, mergeVars, pipelineVars, scoreVars, graphVars, runVars>>

NextDetect == Detect

SpecDetect == InitDetect /\ [][NextDetect]_vars

IndicatorTypes ==
    {"ip", "url", "domain", "hash_md5", "hash_sha1", "hash_sha256", "unknown"}

\* The classification by the first rule that applies, each rule read on the
\* whole string.
FirstMatchingRule(s) ==
    IF ip_address_accepts(s) THEN "ip"
    ELSE IF MatchesUrl(s) THEN "url"
    ELSE IF DomainPattern(s) THEN "domain"
    ELSE IF HexPattern(32, s) THEN "hash_md5"
    ELSE IF HexPattern(40, s) THEN "hash_sha1"
    ELSE IF HexPattern(64, s) THEN "hash_sha256"
    ELSE "unknown"

\* C8: detect_indicator_type classifies every string by the first matching rule
\* in the order IP literal, http(s):// prefix, hostname pattern, exactly 32, 40
\* or 64 hexadecimal characters, and gives unknown for anything else; the result
\* is one of the seven type values.
C8_FirstMatchingRuleDecides ==
    pc = "detected" =>
        /\ detect_result \in IndicatorTypes
        /\ detect_result = FirstMatchingRule(detect_arg)

\* the part of C8 that holds: the result is one of the seven values
DetectResultIsAType == pc = "detected" => detect_result \in IndicatorTypes

----------------------------------------------------------------------------
(* IndicatorNormalizer: the mappers from a raw item to the common schema *)

\* JSON values of a raw item.  An indicator string is a sequence of characters;
\* a timestamp string is a natural number, '' being 0; the elements of a list
\* of strings or numbers are kept as they are.
JNull == [k |-> "null"]
JInd(chars) == [k |-> "ind", chars |-> chars]
JStr(s) == [k |-> "str", s |-> s]
JTime(t) == [k |-> "time", t |-> t]
JNum(n) == [k |-> "num", n |-> n]
JList(items) == [k |-> "list", items |-> items]
JDict(d) == [k |-> "dict", d |-> d]

IsDict(v) == v.k = "dict"

\* item.get(key, default)
Get(item, key, default) == IF key \in DOMAIN item.d THEN item.d[key] ELSE default

\* datetime.now().isoformat(), later than every timestamp of a raw item
Now == 9

common_fields ==
    <<"indicator", "type", "source", "first_seen", "last_seen",
      "confidence", "severity", "tags", "description", "raw_data",
      "asn", "country", "organization", "latitude", "longitude",
      "ports", "services", "malware_families", "references">>

\* '' in a cell of column c
EmptyOf(c) ==
    IF c \in ListColumns THEN StrCell
    ELSE IF c \in NumColumns THEN StrNum
    ELSE ""

\* {**{field: '' for field in self.common_fields}, **normalized}
WithCommonFields(normalized) ==
    normalized @@ [c \in Range(common_fields) |-> EmptyOf(c)]

\* detect_indicator_type on the value of a raw item: None passes ip_address
\* with a ValueError and makes re.match raise TypeError
detect_raises(v) == v.k # "ind"

\* A confidence is kept in thousandths: 0.7 is 700.

normalize_alienvault_raises(item) ==
    \/ ~IsDict(item)
    \/ detect_raises(Get(item, "indicator", JInd(<<>>)))
    \/ LET pulse_info == Get(item, "pulse_info", JDict(<<>>))
       IN  \/ ~IsDict(pulse_info)
           \/ LET pulses == Get(pulse_info, "pulses", JList(<<>>))
              IN  pulses.items # <<>> /\ ~IsDict(pulses.items[1])

normalize_alienvault(item) ==
    LET pulses == Get(Get(item, "pulse_info", JDict(<<>>)), "pulses", JList(<<>>)).items
        pulse == pulses[1]
    IN  [indicator |-> Get(item, "indicator", JInd(<<>>)).chars,
         type |-> detect_indicator_type(Get(item, "indicator", JInd(<<>>)).chars),
         source |-> "alienvault",
         first_seen |-> Get(item, "created", JTime(0)).t,
         last_seen |-> Get(item, "updated", JTime(0)).t,
         confidence |-> 700,
         severity |-> "medium",
         tags |-> IF pulses = <<>> THEN ListCell(<<>>)
                  ELSE ListCell(Get(pulse, "tags", JList(<<>>)).items),
         description |-> IF pulses = <<>> THEN ""
                         ELSE Get(pulse, "description", JStr("")).s,
         raw_data |-> item,
         asn |-> "",
         country |-> "",
         organization |-> "",
         ports |-> ListCell(<<>>),
         services |-> ListCell(<<>>),
         malware_families |-> ListCell(<<>>),
         references |-> IF pulses = <<>> THEN ListCell(<<>>)
                        ELSE ListCell(Get(pulse, "references", JList(<<>>)).items)]

\* last_analysis_stats.get('malicious', 0)
malicious_count(item) ==
    Get(Get(Get(item, "attributes", JDict(<<>>)), "last_analysis_stats", JDict(<<>>)),
        "malicious", JNum(0))

normalize_virustotal_raises(item) ==
    \/ ~IsDict(item)
    \/ detect_raises(Get(item, "id", JInd(<<>>)))
    \/ ~IsDict(Get(item, "attributes", JDict(<<>>)))
    \/ ~IsDict(Get(Get(item, "attributes", JDict(<<>>)), "last_analysis_stats", JDict(<<>>)))
    \/ malicious_count(item).k # "num"

normalize_virustotal(item) ==
    WithCommonFields(
        [indicator |-> Get(item, "id", JInd(<<>>)).chars,
         type |-> detect_indicator_type(Get(item, "id", JInd(<<>>)).chars),
         source |-> "virustotal",
         first_seen |-> Now,
         last_seen |-> Now,
         confidence |-> 800,
         severity |-> IF malicious_count(item).n > 10 THEN "critical"
                     ELSE IF malicious_count(item).n > 5 THEN "high"
                     ELSE "high",
         tags |-> ListCell(<<"virustotal">>),
         description |-> "VirusTotal detection",
         raw_data |-> item])

\* list(set([item.get('port', 0)])) raises on a port that cannot be hashed
normalize_greynoise_raises(item) ==
    \/ ~IsDict(item)
    \/ Get(item, "port", JNum(0)).k \in {"list", "dict"}

normalize_greynoise(item) ==
    LET malicious == Get(item, "classification", JNull) = JStr("malicious")
    IN  WithCommonFields(
        [indicator |-> Get(item, "ip", JInd(<<>>)).chars,
         type |-> "ip",
         source |-> "greynoise",
         first_seen |-> Get(item, "first_seen", JTime(0)).t,
         last_seen |-> Get(item, "last_seen", JTime(0)).t,
         confidence |-> IF malicious THEN 900 ELSE 300,
         severity |-> IF malicious THEN "critical" ELSE "low",
         tags |-> ListCell(<<Get(item, "classification", JStr("unknown")).s>>),
         description |-> Get(item, "actor", JStr("")).s,
         raw_data |-> item,
         organization |-> Get(item, "organization", JStr("")).s,
         asn |-> Get(item, "asn", JStr("")).s,
         country |-> Get(item, "country", JStr("")).s,
         ports |-> ListCell(<<Get(item, "port", JNum(0)).n>>),
         services |-> ListCell(<<Get(item, "protocol", JStr("")).s>>)])

\* ', '.join(parts)
RECURSIVE Join(_)
Join(parts) ==
    IF parts = <<>> THEN ""
    ELSE IF Len(parts) = 1 THEN parts[1]
    ELSE parts[1] \o ", " \o Join(Tail(parts))

\* iterating item.get('ports', []) raises on None
normalize_shodan_raises(item) ==
    \/ ~IsDict(item)
    \/ Get(item, "ports", JList(<<>>)).k # "list"

normalize_shodan(item) ==
    LET ports == Get(item, "ports", JList(<<>>)).items
    IN  WithCommonFields(
        [indicator |-> Get(item, "ip_str", JInd(<<>>)).chars,
         type |-> "ip",
         source |-> "shodan",
         first_seen |-> Get(item, "timestamp", JTime(0)).t,
         last_seen |-> Now,
         confidence |-> 600,
         severity |-> "medium",
         tags |-> ListCell(<<>>),
         description |-> "Open ports: " \o Join([i \in 1..Len(ports) |-> ToString(ports[i])]),
         raw_data |-> item,
         asn |-> Get(item, "asn", JStr("")).s,
         country |-> Get(item, "country_code", JStr("")).s,
         organization |-> Get(item, "org", JStr("")).s,
         ports |-> ListCell(ports),
         services |-> ListCell([i \in 1..Len(ports) |-> "port_" \o ToString(ports[i])])])

\* data = item.get('data', item); None / 100 raises TypeError
normalize_abuseipdb_raises(item) ==
    \/ ~IsDict(item)
    \/ ~IsDict(Get(item, "data", item))
    \/ Get(Get(item, "data", item), "abuseConfidenceScore", JNum(0)).k # "num"

\* min(score / 100, 1.0), in thousandths
abuse_confidence(score) == IF score * 10 < 1000 THEN score * 10 ELSE 1000

normalize_abuseipdb(item) ==
    LET data == Get(item, "data", item)
        score == Get(data, "abuseConfidenceScore", JNum(0)).n
        usageType == Get(data, "usageType", JNull)
    IN  [indicator |-> Get(data, "ipAddress", JInd(<<>>)).chars,
         type |-> "ip",
         source |-> "abuseipdb",
         first_seen |-> Get(data, "lastReportedAt", JTime(Now)).t,
         last_seen |-> Now,
         confidence |-> abuse_confidence(score),
         severity |-> IF score > 80 THEN "critical" ELSE "high",
         tags |-> IF usageType # JNull /\ usageType # JStr("")
                  THEN ListCell(<<usageType.s>>) ELSE ListCell(<<>>),
         description |-> "Abuse confidence: " \o ToString(score) \o "%, Reports: "
                         \o ToString(Get(data, "totalReports", JNum(0)).n),
         raw_data |-> item,
         country |-> Get(data, "countryCode", JStr("")).s,
         asn |-> "",
         organization |-> Get(data, "isp", JStr("")).s,
         latitude |-> StrNum,
         longitude |-> StrNum,
         ports |-> ListCell(<<>>),
         services |-> ListCell(<<>>),
         malware_families |-> ListCell(<<>>),
         references |-> ListCell(<<>>)]

normalize_generic_raises(item) ==
    \/ ~IsDict(item)
    \/ detect_raises(Get(item, "indicator", JInd(<<>>)))

normalize_generic(item, source) ==
    [indicator |-> Get(item, "indicator",
                       Get(item, "ip", Get(item, "domain", JInd(<<>>)))).chars,
     type |-> detect_indicator_type(Get(item, "indicator", JInd(<<>>)).chars),
     source |-> source,
     first_seen |-> Now,
     last_seen |-> Now,
     confidence |-> 500,
     severity |-> "medium",
     tags |-> ListCell(<<>>),
     description |-> "",
     raw_data |-> item]

\* the mapper of the source raises
mapper_raises(raw_item, source) ==
    CASE source = "alienvault" -> normalize_alienvault_raises(raw_item)
      [] source = "virustotal" -> normalize_virustotal_raises(raw_item)
      [] source = "greynoise" -> normalize_greynoise_raises(raw_item)
      [] source = "shodan" -> normalize_shodan_raises(raw_item)
      [] source = "abuseipdb" -> normalize_abuseipdb_raises(raw_item)
      [] OTHER -> normalize_generic_raises(raw_item)

mapper(raw_item, source) ==
    CASE source = "alienvault" -> normalize_alienvault(raw_item)
      [] source = "virustotal" -> normalize_virustotal(raw_item)
      [] source = "greynoise" -> normalize_greynoise(raw_item)
      [] source = "shodan" -> normalize_shodan(raw_item)
      [] source = "abuseipdb" -> normalize_abuseipdb(raw_item)
      [] OTHER -> normalize_generic(raw_item, source)

\* Optional[Dict]: <<>> is None, <<record>> the record.  An exception of the
\* mapper is caught and None returned.
normalize(raw_item, source) ==
    IF mapper_raises(raw_item, source) THEN <<>>
    ELSE <<mapper(raw_item, source)>>

\* mutant: the loop over the items stops at the first item that gives no record
RECURSIVE all_normalized_until_failure(_)
all_normalized_until_failure(raw_data) ==
    IF raw_data = <<>> THEN <<>>
    ELSE IF normalize(Head(raw_data).item, Head(raw_data).source) = <<>> THEN <<>>
    ELSE normalize(Head(raw_data).item, Head(raw_data).source)
         \o all_normalized_until_failure(Tail(raw_data))

\* The loops of normalize_data over the sources and their items, raw_data
\* being the items in that order, each with its source: a record that is not
\* None is appended.
RECURSIVE all_normalized(_)
all_normalized(raw_data) ==
    IF raw_data = <<>> THEN <<>>
    ELSE normalize(Head(raw_data).item, Head(raw_data).source)
         \o all_normalized(Tail(raw_data))

normalize_data(raw_data) == DataFrame(all_normalized(raw_data))

----------------------------------------------------------------------------
(* EnrichmentEngine (enrichment.py) *)

\* df.at[idx, c] = value: a column the frame lacks is added, NaN elsewhere
SetCell(df, idx, c, value) ==
    [cols |-> df.cols \cup {c},
     rows |-> [i \in 1..Len(df.rows) |->
                 [col \in df.cols \cup {c} |->
                    IF i = idx /\ col = c THEN value
                    ELSE IF col \in df.cols THEN df.rows[i][col]
                    ELSE NaNOf(col)]]]

\* What get_ip_info answers: None, or the JSON of the service.  loc is the
\* list ip_info.get('loc', '').split(',') with each part a number or not.
NoIpInfo == JNull
IpInfo(loc) ==
    JDict([asn |-> JStr("AS15169"), country |-> JStr("US"), org |-> JStr("Google"),
           loc |-> JList(loc)])
IpInfoAnswers ==
    <<NoIpInfo,
      IpInfo(<<JNum(37), JNum(-122)>>),    \* "37,-122"
      IpInfo(<<JStr("")>>),                \* ""
      IpInfo(<<JNum(37), JStr("x")>>)>>    \* "37,x": float raises after latitude is set

\* the body of the loop of _enrich_ip_addresses for one row; an exception
\* leaves the cells already written and goes on with the next row
enrich_ip_row(df, idx, ip_info) ==
    IF ip_info = NoIpInfo THEN df
    ELSE LET named == SetCell(SetCell(SetCell(df,
                          idx, "asn", Get(ip_info, "asn", JStr("")).s),
                          idx, "country", Get(ip_info, "country", JStr("")).s),
                          idx, "organization", Get(ip_info, "org", JStr("")).s)
             loc == Get(ip_info, "loc", JList(<<JStr("")>>)).items
         IN  IF Len(loc) # 2 THEN named
             ELSE IF loc[1].k # "num" THEN named
             ELSE IF loc[2].k # "num" THEN SetCell(named, idx, "latitude", Num(loc[1].n))
             ELSE SetCell(SetCell(named, idx, "latitude", Num(loc[1].n)),
                          idx, "longitude", Num(loc[2].n))

\* df[df['type'] == 'ip']
IpRows(df) == {i \in 1..Len(df.rows) : df.rows[i].type = "ip"}

\* for idx, row in df[df['type'] == 'ip'].iterrows(): answers[idx] is what
\* get_ip_info answers for the row
RECURSIVE enrich_ip_rows(_, _, _)
enrich_ip_rows(df, idx, answers) ==
    IF idx > Len(df.rows) THEN df
    ELSE IF idx \in IpRows(df)
         THEN enrich_ip_rows(enrich_ip_row(df, idx, answers[idx]), idx + 1, answers)
         ELSE enrich_ip_rows(df, idx + 1, answers)

enrich_ip_addresses(df, answers) == enrich_ip_rows(df, 1, answers)

\* _enrich_domains: a placeholder
enrich_domains(df) == df

malicious_tags == {"malware", "botnet", "phishing", "c2", "ransomware"}

\* df.groupby('indicator')['source'].nunique() at the indicator of a row
source_counts(df, indicator) ==
    Cardinality({df.rows[i].source : i \in {j \in 1..Len(df.rows) : df.rows[j].indicator = indicator}})

\* confidence * 1.2, then clip(upper=1.0), in thousandths
boost_confidence(confidence) ==
    IF (confidence * 12) \div 10 > 1000 THEN 1000 ELSE (confidence * 12) \div 10

add_threat_context(df) ==
    [cols |-> df.cols,
     rows |-> [i \in 1..Len(df.rows) |->
        LET row == df.rows[i]
            count == source_counts(df, row.indicator)
            counted == IF count > 1
                       THEN [row EXCEPT !.confidence = boost_confidence(@),
                                        !.severity = IF count >= 3 THEN "high" ELSE @]
                       ELSE row
        IN  IF row.tags.k = "list" /\ Range(row.tags.items) \cap malicious_tags # {}
            THEN [counted EXCEPT !.severity = "critical", !.confidence = 900]
            ELSE counted]]

\* enriched_data['type'] raises KeyError on a frame without columns
enrich_raises(normalized) == "type" \notin normalized.cols

enrich(normalized, answers) ==
    LET ips == IF IpRows(normalized) # {}
               THEN enrich_ip_addresses(normalized, answers)
               ELSE normalized
        domains == IF \E i \in 1..Len(ips.rows) : ips.rows[i].type = "domain"
                   THEN enrich_domains(ips)
                   ELSE ips
    IN  add_threat_context(domains)

\* ---- the raw items of a run ----

MaxRaw == 3

\* initialize_collectors, in the order collect_data goes through them
collectors ==
    <<"alienvault", "virustotal", "greynoise", "shodan", "abuseipdb", "urlscan", "ipinfo">>

CollectorRank(source) == CHOOSE i \in 1..Len(collectors) : collectors[i] = source

Raw(source, d) == [source |-> source, item |-> JDict(d)]

AbuseData(score) == [ipAddress |-> JInd(IP1), abuseConfidenceScore |-> score]

RawItems ==
    << Raw("alienvault",
           [indicator |-> JInd(IP1), created |-> JTime(1), updated |-> JTime(2),
            pulse_info |-> JDict([pulses |-> JList(<<JDict(
                [description |-> JStr("scanner"), tags |-> JList(<<"c2", "scanning">>),
                 references |-> JList(<<"ref">>)])>>)])]),
       Raw("alienvault", [indicator |-> JInd(DOM1)]),
       Raw("alienvault", [indicator |-> JInd(DOM1), pulse_info |-> JNull]),
       [source |-> "alienvault", item |-> JList(<<>>)],
       Raw("virustotal",
           [id |-> JInd(DOM1),
            attributes |-> JDict([last_analysis_stats |-> JDict([malicious |-> JNum(12)])])]),
       Raw("virustotal", [id |-> JInd(IP1)]),
       Raw("virustotal",
           [id |-> JInd(DOM1),
            attributes |-> JDict([last_analysis_stats |-> JDict([malicious |-> JNull])])]),
       Raw("greynoise",
           [ip |-> JInd(IP1), classification |-> JStr("malicious"),
            first_seen |-> JTime(1), last_seen |-> JTime(3),
            port |-> JNum(443), protocol |-> JStr("https"), asn |-> JStr("AS3356"),
            country |-> JStr("DE"), organization |-> JStr("Cloudflare")]),
       Raw("greynoise", [ip |-> JInd(IP1), classification |-> JStr("benign")]),
       Raw("greynoise", [ip |-> JInd(IP1), port |-> JList(<<80>>)]),
       Raw("shodan",
           [ip_str |-> JInd(IP1), ports |-> JList(<<80, 443>>), timestamp |-> JTime(2),
            asn |-> JStr("AS15169"), country_code |-> JStr("US"), org |-> JStr("Google")]),
       Raw("shodan", [ip_str |-> JInd(IP1), ports |-> JNull]),
       Raw("abuseipdb",
           [data |-> JDict(AbuseData(JNum(85)) @@
                           [usageType |-> JStr("c2"), countryCode |-> JStr("US"),
                            isp |-> JStr("Google"), lastReportedAt |-> JTime(4),
                            totalReports |-> JNum(7)])]),
       Raw("abuseipdb", AbuseData(JNum(150))),
       Raw("abuseipdb", [data |-> JDict(AbuseData(JNum(-50)))]),
       Raw("abuseipdb", [data |-> JDict(AbuseData(JNull))]),
       Raw("urlscan", [indicator |-> JInd(DOM1)]),
       Raw("urlscan", [ip |-> JInd(IP1)]),
       Raw("urlscan", [indicator |-> JNull]) >>

InitNormalize ==
    /\ pc = "collect"
    /\ MergeIdle
    /\ DetectIdle
    /\ PipelineIdle
    /\ ScoreIdle
    /\ GraphIdle
    /\ RunIdle

\* collect_data: one more item of the collector at hand or of a later one
\* (ipinfo collects nothing)
Collect ==
    /\ pc = "collect"
    /\ Len(all_data) < MaxRaw
    /\ \E i \in 1..Len(RawItems) :
          /\ all_data # <<>> =>
                CollectorRank(all_data[Len(all_data)].source) <= CollectorRank(RawItems[i].source)
          /\ all_data' = Append(all_data, RawItems[i])
    /\ UNCHANGED <<pc, normalized_data, enriched_data, mergeVars, detectVars, scoreVars, graphVars, runVars>>

\* normalized_data = self.normalize_data(raw_data)
NormalizeData ==
    /\ pc = "collect"
    /\ normalized_data' = normalize_data(all_data)
    /\ pc' = "normalized"
    /\ UNCHANGED <<all_data, enriched_data, mergeVars, detectVars, scoreVars, graphVars, runVars>>

\* enriched_data = self.enrich_data(normalized_data); an exception ends the run
Enrich ==
    /\ pc = "normalized"
    /\ IF enrich_raises(normalized_data)
       THEN pc' = "failed" /\ UNCHANGED enriched_data
       ELSE /\ pc' = "enriched"
            /\ \E answers \in [IpRows(normalized_data) -> 1..Len(IpInfoAnswers)] :
                  enriched_data' =
                      enrich(normalized_data,
                             [i \in IpRows(normalized_data) |-> IpInfoAnswers[answers[i]]])
    /\ UNCHANGED <<all_data, normalized_data, mergeVars, detectVars, scoreVars, graphVars, runVars>>

NextNormalize == Collect \/ NormalizeData \/ Enrich

SpecNormalize == InitNormalize /\ [][NextNormalize]_vars

\* ---- claims on normalization and enrichment ----

Normalized == pc \in {"normalized", "enriched", "failed"}

\* the raw items whose mapper raises
Malformed(raw) == mapper_raises(raw.item, raw.source)

InUnitRange(confidence) == 0 <= confidence /\ confidence <= 1000

\* C9: every record that reaches the merge stage has a confidence within
\* [0, 1]: the confidence normalize emits is within [0, 1] for every source and
\* raw record, an abuse score outside 0..100 included, and enrichment keeps it
\* within [0, 1].
C9_ConfidenceInUnitRange ==
    /\ Normalized =>
          \A i \in 1..Len(normalized_data.rows) :
              InUnitRange(normalized_data.rows[i].confidence)
    /\ pc = "enriched" =>
          \A i \in 1..Len(enriched_data.rows) :
              InUnitRange(enriched_data.rows[i].confidence)

\* the part of C9 that holds: no confidence is above 1
ConfidenceAtMostOne ==
    /\ Normalized =>
          \A i \in 1..Len(normalized_data.rows) : normalized_data.rows[i].confidence <= 1000
    /\ pc = "enriched" =>
          \A i \in 1..Len(enriched_data.rows) : enriched_data.rows[i].confidence <= 1000

WellFormed == SelectSeq(all_data, LAMBDA raw : ~Malformed(raw))

\* C10: a raw record whose mapping raises gives no record and the batch goes
\* on: normalize_data does not raise and emits one record for each of the
\* other raw records, of every source, in their order.
C10_MalformedRecordAloneDropped ==
    Normalized =>
        /\ Len(normalized_data.rows) = Len(WellFormed)
        /\ \A i \in 1..Len(WellFormed) :
              /\ normalized_data.rows[i].raw_data = WellFormed[i].item
              /\ normalized_data.rows[i].source = WellFormed[i].source

\* a malformed raw record between two well-formed ones, normalized
C10_Witness ==
    /\ Normalized
    /\ Len(all_data) = 3
    /\ ~Malformed(all_data[1])
    /\ Malformed(all_data[2])
    /\ ~Malformed(all_data[3])
    /\ Len(normalized_data.rows) = 2

----------------------------------------------------------------------------
(* ThreatScorer (scoring.py).  A score is the rational n/d, so that the      *)
(* weighted sum is exact.                                                    *)

Frac(n, d) == Rational(n, d)

RatMul(a, b) == Rational(a.n * b.n, a.d * b.d)

RatLess(a, b) == a.n * b.d < b.n * a.d

RatLeq(a, b) == a.n * b.d <= b.n * a.d

RatMin(a, b) == IF RatLeq(a, b) THEN a ELSE b

\* self.weights
weights ==
    [source_reputation |-> Frac(25, 100),
     confidence |-> Frac(20, 100),
     severity |-> Frac(15, 100),
     source_count |-> Frac(15, 100),
     malicious_tags |-> Frac(15, 100),
     recent_activity |-> Frac(10, 100)]

source_scores ==
    [virustotal |-> 90, greynoise |-> 85, alienvault |-> 80, abuseipdb |-> 75,
     shodan |-> 60, urlscan |-> 70]

\* mutant: a source that is not in the table counts 0
SourceScoreOrZero(source) ==
    IF source \in DOMAIN source_scores THEN source_scores[source] ELSE 0

\* source_scores.get(source, 50)
SourceScore(source) ==
    IF source \in DOMAIN source_scores THEN source_scores[source] ELSE 50

\* _calculate_source_reputation: row.get('sources', []), 0 without sources,
\* else min(np.mean(...), 100)
calculate_source_reputation(row) ==
    LET sources == IF "sources" \in DOMAIN row THEN row.sources ELSE <<>>
    IN  IF sources = <<>> THEN Frac(0, 1)
        ELSE RatMin(Frac(Sum([i \in 1..Len(sources) |-> SourceScore(sources[i])]),
                         Len(sources)),
                    Frac(100, 1))

severity_scores == [low |-> 25, medium |-> 50, high |-> 75, critical |-> 100]

\* severity_scores.get(severity, 50)
severity_to_score(severity) ==
    IF severity \in DOMAIN severity_scores THEN Frac(severity_scores[severity], 1)
    ELSE Frac(50, 1)

malicious_terms ==
    [malware |-> 20, botnet |-> 25, phishing |-> 20, c2 |-> 30, ransomware |-> 25,
     exploit |-> 15, scanning |-> 10] @@ ("brute-force" :> 15)

\* a tag that is itself a list: `tag in malicious_terms` raises TypeError
Unhashable == "[]"

malicious_tags_score_raises(tags) ==
    tags.k = "list" /\ Unhashable \in Range(tags.items)

TermWeight(tag) == IF tag \in DOMAIN malicious_terms THEN malicious_terms[tag] ELSE 0

\* _calculate_malicious_tags_score: 0 for what is not a list, else the sum
\* over the tags of the weights of those that are terms, at most 100
calculate_malicious_tags_score(tags) ==
    IF tags.k # "list" THEN Frac(0, 1)
    ELSE RatMin(Frac(Sum([i \in 1..Len(tags.items) |-> TermWeight(tags.items[i])]), 1),
                Frac(100, 1))

\* _calculate_recency_score
calculate_recency_score(row) == Frac(50, 1)

\* mutant: the thresholds are exclusive
score_to_risk_level_exclusive(score) ==
    IF RatLess(Frac(80, 1), score) THEN "Critical"
    ELSE IF RatLess(Frac(60, 1), score) THEN "High"
    ELSE IF RatLess(Frac(40, 1), score) THEN "Medium"
    ELSE IF RatLess(Frac(20, 1), score) THEN "Low"
    ELSE "Info"

\* _score_to_risk_level
score_to_risk_level(score) ==
    IF RatLeq(Frac(80, 1), score) THEN "Critical"
    ELSE IF RatLeq(Frac(60, 1), score) THEN "High"
    ELSE IF RatLeq(Frac(40, 1), score) THEN "Medium"
    ELSE IF RatLeq(Frac(20, 1), score) THEN "Low"
    ELSE "Info"

\* mutant: only the upper bound is applied
ClipUpper(score, lower, upper) == IF RatLess(upper, score) THEN upper ELSE score

\* Series.clip(lower, upper)
Clip(score, lower, upper) ==
    IF RatLess(score, lower) THEN lower
    ELSE IF RatLess(upper, score) THEN upper
    ELSE score

ScoreColumns ==
    {"source_reputation_score", "confidence_score", "severity_score",
     "source_count_score", "malicious_tags_score", "recent_activity_score"}

\* the six component columns of a row; confidence is in thousandths
component_scores(row) ==
    [source_reputation_score |-> calculate_source_reputation(row),
     confidence_score |-> Frac(row.confidence * 100, 1000),
     severity_score |-> severity_to_score(row.severity),
     source_count_score |-> Frac(row.source_count * 10, 1),
     malicious_tags_score |-> calculate_malicious_tags_score(row.tags),
     recent_activity_score |-> calculate_recency_score(row)]

\* the weighted sum of lines 33-40
weighted_sum(scores) ==
    LET total == SumRat(<<RatMul(scores.source_reputation_score, weights.source_reputation),
                          RatMul(scores.confidence_score, weights.confidence),
                          RatMul(scores.severity_score, weights.severity),
                          RatMul(scores.source_count_score, weights.source_count),
                          RatMul(scores.malicious_tags_score, weights.malicious_tags),
                          RatMul(scores.recent_activity_score, weights.recent_activity)>>)
    IN  Rational(total.n, total.d)

scored_row(row) ==
    LET scores == component_scores(row)
        threat_score == Clip(weighted_sum(scores), Frac(0, 1), Frac(100, 1))
    IN  [threat_score |-> threat_score, risk_level |-> score_to_risk_level(threat_score)]
        @@ scores @@ row

\* calculate_scores raises: a column it reads is not there (KeyError), or the
\* function applied to a row raises
calculate_scores_raises(merged) ==
    \/ {"confidence", "severity", "source_count", "tags"} \ merged.cols # {}
    \/ \E i \in 1..Len(merged.rows) : malicious_tags_score_raises(merged.rows[i].tags)

calculate_scores(merged) ==
    [cols |-> merged.cols \cup ScoreColumns \cup {"threat_score", "risk_level"},
     rows |-> [i \in 1..Len(merged.rows) |-> scored_row(merged.rows[i])]]

\* ---- the merged indicators calculate_scores is called with ----

MaxScored == 2

ManySources == collectors \o <<"feed", "otx", "misp", "cert">>

ScoreSources ==
    {<<>>, <<"virustotal">>, <<"virustotal", "greynoise", "abuseipdb", "urlscan">>,
     ManySources}

ScoreSeverities == {"low", "critical", ""}

ScoreTags ==
    {ListCell(<<>>), ListCell(<<"c2", "scanning">>),
     ListCell(<<"malware", "botnet", "phishing", "c2", "ransomware">>),
     StrCell, ListCell(<<Unhashable>>)}

\* in thousandths
ScoreConfidences == {-500, 0, 500, 950, 2000}

ScoreLastSeen == {1, 8}

ScoreKeys == <<<<IP1, "ip">>, <<DOM1, "domain">>, <<IP1, "unknown">>>>

ScoreRecord(key, sources, severity, tags, confidence, last_seen) ==
    [indicator |-> key[1], type |-> key[2], sources |-> sources,
     source_count |-> Len(sources), last_seen |-> last_seen,
     confidence |-> confidence, severity |-> severity, tags |-> tags]

InitScore ==
    /\ pc = "scoring"
    /\ MergeIdle
    /\ DetectIdle
    /\ PipelineIdle
    /\ ScoreIdle
    /\ GraphIdle
    /\ RunIdle

\* one more merged indicator in the DataFrame handed to calculate_scores
AddIndicator ==
    /\ pc = "scoring"
    /\ Len(score_batch) < MaxScored
    /\ \E sources \in ScoreSources, severity \in ScoreSeverities, tags \in ScoreTags,
          confidence \in ScoreConfidences, last_seen \in ScoreLastSeen :
          score_batch' =
              Append(score_batch,
                     ScoreRecord(ScoreKeys[(Len(score_batch) % Len(ScoreKeys)) + 1],
                                 sources, severity, tags, confidence, last_seen))
    /\ UNCHANGED <<pc, scored_data, mergeVars, detectVars, pipelineVars, graphVars, runVars>>

\* scored_data = self.score_data(merged_data): an exception of calculate_scores
\* is logged and raised again
CalculateScores ==
    /\ pc = "scoring"
    /\ IF calculate_scores_raises(DataFrame(score_batch))
       THEN pc' = "score_raised" /\ UNCHANGED scored_data
       ELSE pc' = "scored" /\ scored_data' = calculate_scores(DataFrame(score_batch))
    /\ UNCHANGED <<score_batch, mergeVars, detectVars, pipelineVars, graphVars, runVars>>

NextScore == AddIndicator \/ CalculateScores

SpecScore == InitScore /\ [][NextScore]_vars

\* ---- claims on scoring ----

Scored == pc = "scored"

InPercentRange(score) == RatLeq(Frac(0, 1), score) /\ RatLeq(score, Frac(100, 1))

\* C11: the threat_score of every merged indicator given to calculate_scores
\* lies in [0, 100], whatever its confidence, severity, sources, source_count
\* and tags.
C11_ThreatScoreInRange ==
    Scored => \A i \in 1..Len(scored_data.rows) :
                  InPercentRange(scored_data.rows[i].threat_score)

\* an indicator whose weighted sum is above 100 and one whose weighted sum is
\* below 0, scored
C11_Witness ==
    /\ Scored
    /\ \E i \in 1..Len(scored_data.rows) :
          /\ RatLess(Frac(100, 1), weighted_sum(component_scores(score_batch[i])))
          /\ scored_data.rows[i].threat_score = Frac(100, 1)
    /\ \E i \in 1..Len(scored_data.rows) :
          /\ RatLess(weighted_sum(component_scores(score_batch[i])), Frac(0, 1))
          /\ scored_data.rows[i].threat_score = Frac(0, 1)

RiskLevels == {"Critical", "High", "Medium", "Low", "Info"}

AtLeast(score, n) == RatLeq(Frac(n, 1), score)

\* C12: risk_level is determined by threat_score with inclusive lower bounds:
\* at least 80 Critical, 60 up to 80 High, 40 up to 60 Medium, 20 up to 40 Low,
\* below 20 Info; every scored indicator has one of these five levels.
C12_RiskLevelByThreshold ==
    Scored => \A i \in 1..Len(scored_data.rows) :
        LET score == scored_data.rows[i].threat_score
            level == scored_data.rows[i].risk_level
        IN  /\ level \in RiskLevels
            /\ level = "Critical" <=> AtLeast(score, 80)
            /\ level = "High" <=> AtLeast(score, 60) /\ ~AtLeast(score, 80)
            /\ level = "Medium" <=> AtLeast(score, 40) /\ ~AtLeast(score, 60)
            /\ level = "Low" <=> AtLeast(score, 20) /\ ~AtLeast(score, 40)
            /\ level = "Info" <=> ~AtLeast(score, 20)

ScoredExactly(n, level) ==
    \E i \in 1..Len(scored_data.rows) :
        /\ scored_data.rows[i].threat_score = Frac(n, 1)
        /\ scored_data.rows[i].risk_level = level

\* indicators scored exactly 80 and exactly 20
C12_Witness == Scored /\ ScoredExactly(80, "Critical") /\ ScoredExactly(20, "Low")

\* indicators scored exactly 60 and exactly 40
AllThresholdsMet == Scored /\ ScoredExactly(60, "High") /\ ScoredExactly(40, "Medium")

\* the per-source table of the claim
ReputationTable(source) ==
    CASE source = "virustotal" -> 90
      [] source = "greynoise" -> 85
      [] source = "alienvault" -> 80
      [] source = "abuseipdb" -> 75
      [] source = "urlscan" -> 70
      [] source = "shodan" -> 60
      [] OTHER -> 50

MeanReputation(sources) ==
    Frac(Sum([i \in 1..Len(sources) |-> ReputationTable(sources[i])]), Len(sources))

SeverityTable(severity) ==
    CASE severity = "low" -> 25
      [] severity = "medium" -> 50
      [] severity = "high" -> 75
      [] severity = "critical" -> 100

RECURSIVE KeywordWeights(_)
KeywordWeights(keywords) ==
    IF keywords = {} THEN 0
    ELSE LET keyword == CHOOSE x \in keywords : TRUE
         IN  malicious_terms[keyword] + KeywordWeights(keywords \ {keyword})

\* the sum of the weights of the keywords among the tags, at most 100
CappedKeywordWeights(tags) ==
    LET total == KeywordWeights(Range(tags) \cap DOMAIN malicious_terms)
    IN  Frac(IF total > 100 THEN 100 ELSE total, 1)

\* 0.25*a + 0.20*b + 0.15*c + 0.15*d + 0.15*e + 0.10*f
Composite(a, b, c, d, e, f) ==
    LET total == SumRat(<<RatMul(Frac(25, 100), a), RatMul(Frac(20, 100), b),
                          RatMul(Frac(15, 100), c), RatMul(Frac(15, 100), d),
                          RatMul(Frac(15, 100), e), RatMul(Frac(10, 100), f)>>)
    IN  Rational(total.n, total.d)

WeightTotal ==
    LET total == SumRat(<<weights.source_reputation, weights.confidence, weights.severity,
                          weights.source_count, weights.malicious_tags,
                          weights.recent_activity>>)
    IN  Rational(total.n, total.d)

\* an indicator the formula of C13 speaks of: it has sources, a severity on
\* the scale and a list of tags
Describable(row) ==
    row.sources # <<>> /\ OnScale(row.severity) /\ row.tags.k = "list"

\* C13: before the clamp to [0, 100], threat_score is 0.25*source_reputation +
\* 0.20*(confidence*100) + 0.15*severity_score + 0.15*(source_count*10) +
\* 0.15*malicious_tags_score + 0.10*recency_score; the weights sum to 1;
\* source_reputation is the mean of the source table over the sources (50 for
\* a source not in it); severity_score is 25/50/75/100; malicious_tags_score
\* is the sum of the weights of the keywords among the tags, at most 100.
C13_ThreatScoreIsWeightedSum ==
    /\ WeightTotal = Frac(1, 1)
    /\ Scored => \A i \in 1..Len(scored_data.rows) :
          LET row == scored_data.rows[i]
          IN  Describable(row) =>
                /\ row.source_reputation_score = MeanReputation(row.sources)
                /\ row.severity_score = Frac(SeverityTable(row.severity), 1)
                /\ row.malicious_tags_score = CappedKeywordWeights(row.tags.items)
                /\ row.threat_score =
                      Clip(Composite(MeanReputation(row.sources),
                                     Frac(row.confidence, 10),
                                     Frac(SeverityTable(row.severity), 1),
                                     Frac(row.source_count * 10, 1),
                                     CappedKeywordWeights(row.tags.items),
                                     row.recent_activity_score),
                           Frac(0, 1), Frac(100, 1))

\* a scored indicator with several sources, one of them not in the table, a
\* keyword among its tags, and a sum the clamp leaves as it is
C13_Witness ==
    /\ Scored
    /\ \E i \in 1..Len(scored_data.rows) :
          LET row == scored_data.rows[i]
          IN  /\ Describable(row)
              /\ Len(row.sources) > 1
              /\ "feed" \in Range(row.sources)
              /\ "c2" \in Range(row.tags.items)
              /\ RatLess(Frac(0, 1), row.threat_score)
              /\ RatLess(row.threat_score, Frac(100, 1))

\* C14: each of the six sub-scores of a scored indicator (source reputation,
\* confidence, severity, source count, malicious tags, recent activity) lies in
\* [0, 100], also for an indicator reported by more than ten sources.
C14_SubScoresInRange ==
    Scored => \A i \in 1..Len(scored_data.rows) : \A c \in ScoreColumns :
                  InPercentRange(scored_data.rows[i][c])

\* the sub-scores that are bounded: all but confidence and source count
BoundedSubScoresInRange ==
    Scored => \A i \in 1..Len(scored_data.rows) :
                  \A c \in ScoreColumns \ {"confidence_score", "source_count_score"} :
                      InPercentRange(scored_data.rows[i][c])

\* the scoring attributes of an indicator, last_seen apart
ScoringAttributes(row) ==
    <<row.sources, row.source_count, row.confidence, row.severity, row.tags>>

\* C15: the recent-activity sub-score decreases with age: of two indicators
\* that differ in last_seen only, the one seen more recently has a sub-score at
\* least as high, and a strictly higher one when the ages differ enough (here:
\* by the widest gap there is).
C15_RecencyDecreasesWithAge ==
    Scored => \A i, j \in 1..Len(scored_data.rows) :
        LET recent == scored_data.rows[i]
            old == scored_data.rows[j]
        IN  (ScoringAttributes(recent) = ScoringAttributes(old)
             /\ recent.last_seen > old.last_seen) =>
                /\ RatLeq(old.recent_activity_score, recent.recent_activity_score)
                /\ (\A t \in ScoreLastSeen : old.last_seen <= t /\ t <= recent.last_seen) =>
                      RatLess(old.recent_activity_score, recent.recent_activity_score)

\* the part of C15 that holds: the more recent one is never scored lower
RecencyNeverLowerForRecent ==
    Scored => \A i, j \in 1..Len(scored_data.rows) :
        scored_data.rows[i].last_seen > scored_data.rows[j].last_seen =>
            RatLeq(scored_data.rows[j].recent_activity_score,
                   scored_data.rows[i].recent_activity_score)

\* the indicators whose score cannot be computed
ScoreFails(row) == malicious_tags_score_raises(row.tags)

\* C16: when computing the score of one indicator raises, calculate_scores
\* does not raise, that indicator gets threat_score 0 and risk_level Info, and
\* every other indicator of the batch gets its normal score and level.
C16_FailingIndicatorAloneDefaulted ==
    (pc \in {"scored", "score_raised"}
     /\ \E i \in 1..Len(score_batch) : ScoreFails(score_batch[i])) =>
        /\ pc = "scored"
        /\ Len(scored_data.rows) = Len(score_batch)
        /\ \A i \in 1..Len(score_batch) :
              IF ScoreFails(score_batch[i])
              THEN /\ scored_data.rows[i].threat_score = Frac(0, 1)
                   /\ scored_data.rows[i].risk_level = "Info"
              ELSE /\ scored_data.rows[i].threat_score = scored_row(score_batch[i]).threat_score
                   /\ scored_data.rows[i].risk_level = scored_row(score_batch[i]).risk_level

\* C17: a missing attribute contributes zero: no sources give source
\* reputation 0, no tags or tags that are not a list give malicious-tags score
\* 0, a severity that is missing or not low/medium/high/critical gives
\* severity score 0.
C17_MissingAttributeScoresZero ==
    Scored => \A i \in 1..Len(scored_data.rows) :
        LET row == scored_data.rows[i]
        IN  /\ row.sources = <<>> => row.source_reputation_score = Frac(0, 1)
            /\ (row.tags.k # "list" \/ row.tags.items = <<>>) =>
                  row.malicious_tags_score = Frac(0, 1)
            /\ ~OnScale(row.severity) => row.severity_score = Frac(0, 1)

\* the parts of C17 that hold: sources and tags
MissingSourcesAndTagsScoreZero ==
    Scored => \A i \in 1..Len(scored_data.rows) :
        LET row == scored_data.rows[i]
        IN  /\ row.sources = <<>> => row.source_reputation_score = Frac(0, 1)
            /\ (row.tags.k # "list" \/ row.tags.items = <<>>) =>
                  row.malicious_tags_score = Frac(0, 1)

----------------------------------------------------------------------------
(* CorrelationEngine (correlation.py) *)

\* the characters of a type name
TypeChars ==
    [ip |-> <<"i", "p">>, url |-> <<"u", "r", "l">>,
     domain |-> <<"d", "o", "m", "a", "i", "n">>,
     hash_md5 |-> <<"h", "a", "s", "h", "_", "m", "d", "5">>,
     hash_sha1 |-> <<"h", "a", "s", "h", "_", "s", "h", "a", "1">>,
     hash_sha256 |-> <<"h", "a", "s", "h", "_", "s", "h", "a", "2", "5", "6">>,
     unknown |-> <<"u", "n", "k", "n", "o", "w", "n">>]

\* f"{type}_{indicator}"
NodeId(type, indicator) == TypeChars[type] \o <<"_">> \o indicator

\* row.get(key, default)
RowGet(row, key, default) == IF key \in DOMAIN row THEN row[key] ELSE default

\* _add_indicator_node: a node that is there already gets the new attributes
add_indicator_node(g, row) ==
    [g EXCEPT !.nodes =
        (NodeId(row.type, row.indicator) :>
            [indicator |-> row.indicator,
             type |-> row.type,
             threat_score |-> RowGet(row, "threat_score", Frac(0, 1)),
             risk_level |-> RowGet(row, "risk_level", "Unknown"),
             sources |-> RowGet(row, "sources", <<>>),
             asn |-> RowGet(row, "asn", ""),
             country |-> RowGet(row, "country", ""),
             organization |-> RowGet(row, "organization", "")]) @@ @]

RECURSIVE add_indicator_nodes(_, _)
add_indicator_nodes(g, rows) ==
    IF rows = <<>> THEN g
    ELSE add_indicator_nodes(add_indicator_node(g, Head(rows)), Tail(rows))

\* f"ip_{ind}" if '.' in ind else f"domain_{ind}"
EdgeNode(ind) ==
    IF "." \in Range(ind) THEN NodeId("ip", ind) ELSE NodeId("domain", ind)

\* the body of the loop of _create_edges for one pair
create_edge(g, ind1, ind2, relationship, value) ==
    LET node1 == EdgeNode(ind1)
        node2 == EdgeNode(ind2)
        edge == {node1, node2}
    IN  IF node1 \in DOMAIN g.nodes /\ node2 \in DOMAIN g.nodes
        THEN IF edge \in DOMAIN g.edges
             THEN [g EXCEPT !.edges[edge] =
                      [relationships |-> Append(@.relationships, <<relationship, value>>)]]
             ELSE [g EXCEPT !.edges =
                      (edge :> [relationships |-> <<<<relationship, value>>>>]) @@ @,
                             !.added = Append(@, edge)]
        ELSE g

\* itertools.combinations(range(n), 2) from the pair (i, j) on
RECURSIVE Combinations(_, _, _)
Combinations(i, j, n) ==
    IF i >= n THEN <<>>
    ELSE IF j > n THEN Combinations(i + 1, i + 2, n)
    ELSE <<<<i, j>>>> \o Combinations(i, j + 1, n)

RECURSIVE create_edges_for(_, _, _, _, _)
create_edges_for(g, indicators, pairs, relationship, value) ==
    IF pairs = <<>> THEN g
    ELSE create_edges_for(
             create_edge(g, indicators[Head(pairs)[1]], indicators[Head(pairs)[2]],
                         relationship, value),
             indicators, Tail(pairs), relationship, value)

create_edges(g, indicators, relationship, value) ==
    create_edges_for(g, indicators, Combinations(1, 2, Len(indicators)),
                     relationship, value)

\* the keys of scored_data.groupby(column): NaN and None are no key
GroupValues(df, column) ==
    {df.rows[i][column] : i \in 1..Len(df.rows)} \ {NaN, PyNone}

\* the groups of scored_data.groupby(column) for the keys in values, in the
\* order of the keys: a group with a key that is not '' and more than one row
\* gets its edges
RECURSIVE link_groups(_, _, _, _, _)
link_groups(g, df, column, relationship, values) ==
    IF values = {} THEN g
    ELSE LET value == CHOOSE v \in values : \A w \in values : StrRank(v) <= StrRank(w)
             group == SelectSeq(df.rows, LAMBDA row : row[column] = value)
             linked == IF value # "" /\ Len(group) > 1
                       THEN create_edges(g, Column(group, "indicator"), relationship, value)
                       ELSE g
         IN  link_groups(linked, df, column, relationship, values \ {value})

link_by_asn(g, df) == link_groups(g, df, "asn", "same_asn", GroupValues(df, "asn"))

link_by_country(g, df) ==
    link_groups(g, df, "country", "same_country", GroupValues(df, "country"))

link_by_organization(g, df) ==
    link_groups(g, df, "organization", "same_org", GroupValues(df, "organization"))

\* _link_by_services and _link_ips_and_domains do nothing
build_relationships(g, df) == link_by_organization(link_by_country(link_by_asn(g, df), df), df)

\* graph.degree(): a self-loop counts twice
Degree(g, node) ==
    Cardinality({edge \in DOMAIN g.edges : node \in edge /\ edge # {node}})
        + (IF {node} \in DOMAIN g.edges THEN 2 ELSE 0)

\* the nodes reachable from the nodes seen
RECURSIVE Component(_, _)
Component(g, seen) ==
    LET next == seen \cup {node \in DOMAIN g.nodes :
                              \E m \in seen : {node, m} \in DOMAIN g.edges}
    IN  IF next = seen THEN seen ELSE Component(g, next)

RECURSIVE SumOver(_, _)
SumOver(f, S) ==
    IF S = {} THEN 0
    ELSE LET x == CHOOSE y \in S : TRUE IN f[x] + SumOver(f, S \ {x})

\* _calculate_graph_metrics, without the community count
calculate_graph_metrics(g) ==
    LET nodes == DOMAIN g.nodes
        n == Cardinality(nodes)
        m == Cardinality(DOMAIN g.edges)
        degree == [node \in nodes |-> Degree(g, node)]
    IN  IF n = 0 THEN <<>>
        ELSE [total_nodes |-> n,
              total_edges |-> m,
              density |-> IF n <= 1 THEN Frac(0, 1) ELSE Frac(2 * m, n * (n - 1)),
              connected_components |->
                  Cardinality({Component(g, {node}) : node \in nodes}),
              average_degree |-> Frac(SumOver(degree, nodes), n),
              node_degrees |-> degree,
              centrality |-> [node \in nodes |->
                  IF n <= 1 THEN Frac(1, 1) ELSE Frac(degree[node], n - 1)]]

\* scored_data.groupby(column) raises KeyError for a column that is not there
LinkColumns == <<"asn", "country", "organization">>

build_graph_raises(df) == \E i \in 1..Len(LinkColumns) : LinkColumns[i] \notin df.cols

graph_clear_kept(g) == g

\* self.graph.clear()
graph_clear(g) == EmptyGraph

\* the graph build_graph leaves in an engine whose graph was g: the graph
\* cleared, the nodes, then the relationships up to the first column that is
\* missing
build_graph_on(g, df) ==
    LET nodes == add_indicator_nodes(graph_clear(g), df.rows)
    IN  IF "asn" \notin df.cols THEN nodes
        ELSE IF "country" \notin df.cols THEN link_by_asn(nodes, df)
        ELSE IF "organization" \notin df.cols
             THEN link_by_country(link_by_asn(nodes, df), df)
        ELSE build_relationships(nodes, df)

\* build_graph on the engine as it is, self.graph being the state's graph
build_graph(df) == build_graph_on(graph, df)

----------------------------------------------------------------------------
(* Correlation: build_graph on datasets of scored indicators *)

MaxDataset == 3

IP2 == <<"1", ".", "1", ".", "1", ".", "1">>
DOM2 == <<"b", ".", "i", "o">>

GraphKeys ==
    {<<IP1, "ip">>, <<IP2, "ip">>, <<IP1, "unknown">>,
     <<DOM1, "domain">>, <<DOM2, "domain">>}

GraphAsns == {"", "AS15169"}
GraphCountries == {"US", "DE"}
GraphOrganizations == {"Google", PyNone}

ScoredIndicator(key, asn, country, organization) ==
    [indicator |-> key[1], type |-> key[2],
     threat_score |-> Frac(50, 1), risk_level |-> "Medium",
     sources |-> <<"virustotal">>,
     asn |-> asn, country |-> country, organization |-> organization]

ScoredIndicators ==
    {ScoredIndicator(key, asn, country, organization) :
        key \in GraphKeys, asn \in GraphAsns,
        country \in GraphCountries, organization \in GraphOrganizations}

InitGraph ==
    /\ pc = "correlating"
    /\ MergeIdle
    /\ DetectIdle
    /\ PipelineIdle
    /\ ScoreIdle
    /\ GraphIdle
    /\ RunIdle

\* where the caller of the engine is: before its first build_graph call,
\* after it, and before and after a later call on the same engine
CorrelatorPositions ==
    {"correlating", "built", "build_raised",
     "correlating_again", "built_again", "build_raised_again"}

\* one more scored indicator in the dataset of the next build_graph call; the
\* scored dataset has one row for a pair of indicator and type
AddScored ==
    /\ pc \in CorrelatorPositions
    /\ Len(dataset) < MaxDataset
    /\ \E row \in ScoredIndicators :
          /\ \A i \in 1..Len(dataset) :
                <<dataset[i].indicator, dataset[i].type>> # <<row.indicator, row.type>>
          /\ dataset' = Append(dataset, row)
    /\ pc' = "correlating"
    /\ UNCHANGED <<mergeVars, detectVars, pipelineVars, scoreVars, runVars, graph, metrics, query, related>>

\* correlator.build_graph(scored_data), on the engine as earlier calls left it
BuildGraph ==
    /\ pc \in CorrelatorPositions
    /\ graph' = build_graph(DataFrame(dataset))
    /\ IF build_graph_raises(DataFrame(dataset))
       THEN /\ pc' = IF pc = "correlating" THEN "build_raised" ELSE "build_raised_again"
            /\ UNCHANGED metrics
       ELSE /\ pc' = IF pc = "correlating" THEN "built" ELSE "built_again"
            /\ metrics' = calculate_graph_metrics(graph')
    /\ UNCHANGED <<mergeVars, detectVars, pipelineVars, scoreVars, runVars, dataset, query, related>>

NextGraph == AddScored \/ BuildGraph

SpecGraph == InitGraph /\ [][NextGraph]_vars

----------------------------------------------------------------------------
(* Claims about the correlation graph *)

\* build_graph has returned for the dataset
Built == pc = "built"

NodeOf(row) == NodeId(row.type, row.indicator)

LinkKind == [asn |-> "same_asn", country |-> "same_country", organization |-> "same_org"]

\* the scored indicators i and j of the dataset share a non-empty value of attr
Shares(i, j, attr) ==
    /\ i # j
    /\ dataset[i][attr] = dataset[j][attr]
    /\ dataset[i][attr] \notin {"", NaN, PyNone}

\* C18: after build_graph, for each of asn, country and organization and each
\* non-empty value shared by two or more scored indicators, every pair of
\* distinct indicators sharing the value is joined by an edge whose
\* relationships contain (kind, value), whatever the types of the indicators.
C18_SharingIndicatorsLinked ==
    Built => \A i, j \in 1..Len(dataset) : \A attr \in Range(LinkColumns) :
        Shares(i, j, attr) =>
            LET edge == {NodeOf(dataset[i]), NodeOf(dataset[j])}
            IN  /\ edge \in DOMAIN graph.edges
                /\ <<LinkKind[attr], dataset[i][attr]>>
                      \in Range(graph.edges[edge].relationships)

\* C19: in every graph build_graph produces an edge is an unordered pair of
\* nodes and no edge joins a node to itself, also when two scored indicators
\* have the same indicator value, different types and a shared attribute value.
C19_NoSelfLoops ==
    Built => \A edge \in DOMAIN graph.edges :
        /\ edge \subseteq DOMAIN graph.nodes
        /\ Cardinality(edge) = 2

\* the relationships two scored indicators have, in the order of the links
SharedRelationships(i, j) ==
    (IF Shares(i, j, "asn") THEN <<<<"same_asn", dataset[i].asn>>>> ELSE <<>>)
    \o (IF Shares(i, j, "country") THEN <<<<"same_country", dataset[i].country>>>> ELSE <<>>)
    \o (IF Shares(i, j, "organization")
        THEN <<<<"same_org", dataset[i].organization>>>> ELSE <<>>)

\* C20: the one edge between two nodes has a non-empty relationships list
\* holding exactly one (kind, value) entry for each of asn, country and
\* organization on which the two indicators share a non-empty value, in the
\* order same_asn, same_country, same_org, no kind twice.
C20_OneEntryPerSharedAttribute ==
    Built => \A edge \in DOMAIN graph.edges : Cardinality(edge) = 2 =>
        \E i, j \in 1..Len(dataset) :
            /\ edge = {NodeOf(dataset[i]), NodeOf(dataset[j])}
            /\ graph.edges[edge].relationships # <<>>
            /\ graph.edges[edge].relationships = SharedRelationships(i, j)

----------------------------------------------------------------------------
(* Correlation: sequences of build_graph calls on one engine *)

\* the scored indicators of the call sequences: one asn, two countries
LinkedIndicators ==
    {row \in ScoredIndicators : row.asn = "AS15169" /\ row.organization = PyNone}

\* one more scored indicator in the dataset of the next call
AddLinked ==
    /\ pc \in CorrelatorPositions
    /\ Len(dataset) < MaxDataset
    /\ \E row \in LinkedIndicators :
          /\ \A i \in 1..Len(dataset) :
                <<dataset[i].indicator, dataset[i].type>> # <<row.indicator, row.type>>
          /\ dataset' = Append(dataset, row)
    /\ pc' = IF pc = "correlating" THEN "correlating" ELSE "correlating_again"
    /\ UNCHANGED <<mergeVars, detectVars, pipelineVars, scoreVars, runVars, graph, metrics, query, related>>

\* the caller starts the dataset of another run; the engine keeps its graph
NextRun ==
    /\ pc \in CorrelatorPositions \ {"correlating"}
    /\ dataset # <<>>
    /\ dataset' = <<>>
    /\ pc' = "correlating_again"
    /\ UNCHANGED <<mergeVars, detectVars, pipelineVars, scoreVars, runVars, graph, metrics, query, related>>

NextRebuild == AddLinked \/ BuildGraph \/ NextRun

SpecRebuild == InitGraph /\ [][NextRebuild]_vars

\* build_graph has returned or raised on an engine that built a graph before
BuiltAgain == pc \in {"built_again", "build_raised_again"}

\* C21: build_graph on a dataset after any earlier build_graph calls leaves
\* the nodes, edges and relationship lists a single build_graph on a fresh
\* engine leaves for that dataset.
C21_RebuiltFromScratch ==
    BuiltAgain => graph = build_graph_on(EmptyGraph, DataFrame(dataset))

\* the engine was called again on a dataset with linked indicators, and its
\* metrics are those of the new graph
C21_Witness ==
    /\ pc = "built_again"
    /\ graph = build_graph_on(EmptyGraph, DataFrame(dataset))
    /\ Cardinality(DOMAIN graph.nodes) = 2
    /\ \E edge \in DOMAIN graph.edges : Len(graph.edges[edge].relationships) = 2

----------------------------------------------------------------------------
(* Claims about the graph metrics *)

\* a path of at most n edges joins the nodes u and v of the graph
RECURSIVE Joined(_, _, _)
Joined(u, v, n) ==
    \/ u = v
    \/ /\ n > 0
       /\ \E w \in DOMAIN graph.nodes :
             {u, w} \in DOMAIN graph.edges /\ Joined(w, v, n - 1)

\* the connected components of the graph: the classes of joined nodes
Components ==
    LET nodes == DOMAIN graph.nodes
    IN  {{v \in nodes : Joined(u, v, Cardinality(nodes))} : u \in nodes}

\* the metrics count the nodes, edges and components of the graph, and
\* density and average degree are the stated quotients
MetricsDescribeGraph ==
    (Built /\ dataset # <<>>) =>
        LET n == Cardinality(DOMAIN graph.nodes)
            m == Cardinality(DOMAIN graph.edges)
        IN  /\ metrics.total_nodes = n
            /\ metrics.total_edges = m
            /\ metrics.density.n * n * (n - 1) = 2 * m * metrics.density.d
            /\ metrics.connected_components = Cardinality(Components)
            /\ metrics.average_degree.n * n = 2 * m * metrics.average_degree.d

\* the dataset is two indicators that share an asn and nothing else
TwoSharingOnlyAsn ==
    /\ Len(dataset) = 2
    /\ Shares(1, 2, "asn")
    /\ ~Shares(1, 2, "country")
    /\ ~Shares(1, 2, "organization")

\* C22: for every non-empty dataset the metrics build_graph returns describe
\* the built graph (node count, edge count, density = edges / (n(n-1)/2),
\* number of connected components, average degree = 2 * edges / nodes), and
\* two indicators sharing only an asn give 2 nodes, 1 edge, density 1 and 1
\* component.
C22_MetricsDescribeGraph ==
    /\ MetricsDescribeGraph
    /\ (Built /\ TwoSharingOnlyAsn) =>
          /\ metrics.total_nodes = 2
          /\ metrics.total_edges = 1
          /\ metrics.density = Frac(1, 1)
          /\ metrics.connected_components = 1

----------------------------------------------------------------------------
(* CorrelationEngine.find_related_indicators *)

\* graph.neighbors(node): the neighbours in the order their edges were added
RECURSIVE NeighborsIn(_, _)
NeighborsIn(added, node) ==
    IF added = <<>> THEN <<>>
    ELSE LET edge == Head(added)
             rest == NeighborsIn(Tail(added), node)
         IN  IF node \notin edge THEN rest
             ELSE IF edge = {node} THEN <<node>> \o rest
             ELSE <<CHOOSE m \in edge : m # node>> \o rest

Neighbors(g, node) == NeighborsIn(g.added, node)

\* dfs(current_node, depth) of find_related_indicators: walk is the pair of
\* visited and related; dfs_each is its loop over the neighbours
RECURSIVE dfs(_, _, _, _, _)
RECURSIVE dfs_each(_, _, _, _, _)
dfs(g, walk, current_node, depth, max_depth) ==
    IF depth > max_depth \/ current_node \in walk.visited THEN walk
    ELSE dfs_each(g,
                  [visited |-> walk.visited \cup {current_node},
                   related |-> Append(walk.related, current_node)],
                  Neighbors(g, current_node), depth + 1, max_depth)

dfs_each(g, walk, neighbors, depth, max_depth) ==
    IF neighbors = <<>> THEN walk
    ELSE dfs_each(g, dfs(g, walk, Head(neighbors), depth, max_depth),
                  Tail(neighbors), depth, max_depth)

find_related_indicators(g, indicator, max_depth) ==
    LET node_id == EdgeNode(indicator)
    IN  IF node_id \notin DOMAIN g.nodes THEN <<>>
        ELSE SelectSeq(dfs(g, [visited |-> {}, related |-> <<>>], node_id, 0, max_depth).related,
                       LAMBDA node : node # node_id)

----------------------------------------------------------------------------
(* Correlation: find_related_indicators on built graphs *)

MaxNeighbours == 4
MaxDepth == 2

IP3 == <<"9", ".", "9", ".", "9", ".", "9">>
IP4 == <<"4", ".", "4", ".", "4", ".", "4">>

NeighbourKeys ==
    {<<IP1, "ip">>, <<IP2, "ip">>, <<IP3, "ip">>, <<IP4, "ip">>, <<DOM1, "domain">>}

NeighbourIndicators ==
    {ScoredIndicator(key, asn, country, PyNone) :
        key \in NeighbourKeys, asn \in GraphAsns, country \in GraphCountries}

\* one more scored indicator in the dataset the graph is built from
AddNeighbour ==
    /\ pc = "correlating"
    /\ Len(dataset) < MaxNeighbours
    /\ \E row \in NeighbourIndicators :
          /\ \A i \in 1..Len(dataset) :
                <<dataset[i].indicator, dataset[i].type>> # <<row.indicator, row.type>>
          /\ dataset' = Append(dataset, row)
    /\ UNCHANGED <<pc, mergeVars, detectVars, pipelineVars, scoreVars, runVars,
                   graph, metrics, query, related>>

\* correlator.find_related_indicators(indicator, max_depth) on the built graph
FindRelated ==
    /\ pc = "built"
    /\ \E key \in NeighbourKeys, max_depth \in 0..MaxDepth :
          /\ query' = [indicator |-> key[1], max_depth |-> max_depth]
          /\ related' = find_related_indicators(graph, key[1], max_depth)
    /\ pc' = "related"
    /\ UNCHANGED <<mergeVars, detectVars, pipelineVars, scoreVars, runVars,
                   dataset, graph, metrics>>

NextRelated == AddNeighbour \/ BuildGraph \/ FindRelated

SpecRelated == InitGraph /\ [][NextRelated]_vars

\* the nodes at a distance of 1 to max_depth edges from the node start
Within(start, max_depth) ==
    {node \in DOMAIN graph.nodes : node # start /\ Joined(start, node, max_depth)}

\* C23: find_related_indicators returns exactly the nodes at a shortest-path
\* distance of 1 to max_depth from the start node, never the start node, no
\* node twice, whatever the shape of the graph, and the empty list when the
\* start node is not in the graph.
C23_RelatedAreNodesWithinDepth ==
    pc = "related" =>
        LET start == EdgeNode(query.indicator)
        IN  IF start \notin DOMAIN graph.nodes THEN related = <<>>
            ELSE /\ Range(related) = Within(start, query.max_depth)
                 /\ \A i, j \in 1..Len(related) : related[i] = related[j] => i = j

\* what does hold: no node twice, never the start node, and only nodes within
\* max_depth of it
RelatedAreWithinDepth ==
    pc = "related" =>
        LET start == EdgeNode(query.indicator)
        IN  IF start \notin DOMAIN graph.nodes THEN related = <<>>
            ELSE /\ Range(related) \subseteq Within(start, query.max_depth)
                 /\ \A i, j \in 1..Len(related) : related[i] = related[j] => i = j

----------------------------------------------------------------------------
(* OSINTPipeline.run_pipeline (main.py): the stages of one run *)

\* the stages in the order run_pipeline calls them
Stages == <<"collect", "normalize", "enrich", "merge", "score", "correlate", "report">>

StageRank(stage) == CHOOSE i \in 1..Len(Stages) : Stages[i] = stage

\* the files a stage writes as its output, in the order it writes them
OutputFiles ==
    [collect |-> <<>>,
     normalize |-> <<"normalized.csv">>,
     enrich |-> <<"enriched.csv">>,
     merge |-> <<"merged.csv">>,
     score |-> <<"scored.csv">>,
     correlate |-> <<"correlation_graph.json", "graph.json">>,
     report |-> <<"summary.json", "report.html", "charts.json">>]

RawFile(source) == "raw_" \o source \o ".json"

\* what the trace records of a stage: it was called, it did all of its work,
\* an exception ended its work
Started(stage) == <<stage, "started">>
Completed(stage) == <<stage, "completed">>
Failed(stage) == <<stage, "failed">>

InitRun ==
    /\ pc = "collect"
    /\ MergeIdle
    /\ DetectIdle
    /\ PipelineIdle
    /\ ScoreIdle
    /\ GraphIdle
    /\ RunIdle

RunUnchanged == UNCHANGED <<mergeVars, detectVars, pipelineVars, scoreVars, graphVars>>

\* collect_data: a collector that raises is logged and skipped, the others
\* have their raw data saved
RunCollect ==
    /\ pc = "collect"
    /\ \E failed \in SUBSET Range(collectors) :
          files' = files \cup {RawFile(source) : source \in Range(collectors) \ failed}
    /\ trace' = trace \o <<Started("collect"), Completed("collect")>>
    /\ pc' = "normalize"
    /\ RunUnchanged

\* where a stage is after computing its result in memory, or after raising;
\* the except clause of merge_deduplicate_data and score_data writes its debug
\* file and raises again
Computed(stage, next, debug_files, raises) ==
    IF raises
    THEN [trace |-> trace \o <<Started(stage), Failed(stage)>>,
          files |-> files \cup debug_files,
          pc |-> "raised"]
    ELSE [trace |-> Append(trace, Started(stage)), files |-> files, pc |-> next]

\* where a stage is after writing one output file, or after the write raised;
\* the stage has done its work when the next position is another stage
Written(stage, file, next, debug_files, raises) ==
    IF raises
    THEN [trace |-> Append(trace, Failed(stage)),
          files |-> files \cup debug_files,
          pc |-> "raised"]
    ELSE [trace |-> IF next \in Range(Stages)
                    THEN Append(trace, Completed(stage)) ELSE trace,
          files |-> files \cup {file},
          pc |-> next]

\* normalize_data catches the failure of an item; only its to_csv can raise
RunNormalize ==
    /\ pc = "normalize"
    /\ trace' = Append(trace, Started("normalize"))
    /\ pc' = "normalize_save"
    /\ UNCHANGED files
    /\ RunUnchanged

SaveNormalized ==
    /\ pc = "normalize_save"
    /\ \E raises \in BOOLEAN :
          LET after == Written("normalize", "normalized.csv", "enrich", {}, raises)
          IN  trace' = after.trace /\ files' = after.files /\ pc' = after.pc
    /\ RunUnchanged

RunEnrich ==
    /\ pc = "enrich"
    /\ \E raises \in BOOLEAN :
          LET after == Computed("enrich", "enrich_save", {}, raises)
          IN  trace' = after.trace /\ files' = after.files /\ pc' = after.pc
    /\ RunUnchanged

SaveEnriched ==
    /\ pc = "enrich_save"
    /\ \E raises \in BOOLEAN :
          LET after == Written("enrich", "enriched.csv", "merge", {}, raises)
          IN  trace' = after.trace /\ files' = after.files /\ pc' = after.pc
    /\ RunUnchanged

RunMerge ==
    /\ pc = "merge"
    /\ \E raises \in BOOLEAN :
          LET after == Computed("merge", "merge_save", {"debug_enriched_data.txt"}, raises)
          IN  trace' = after.trace /\ files' = after.files /\ pc' = after.pc
    /\ RunUnchanged

SaveMerged ==
    /\ pc = "merge_save"
    /\ \E raises \in BOOLEAN :
          LET after == Written("merge", "merged.csv", "score",
                               {"debug_enriched_data.txt"}, raises)
          IN  trace' = after.trace /\ files' = after.files /\ pc' = after.pc
    /\ RunUnchanged

RunScore ==
    /\ pc = "score"
    /\ \E raises \in BOOLEAN :
          LET after == Computed("score", "score_save", {"debug_merged_data.txt"}, raises)
          IN  trace' = after.trace /\ files' = after.files /\ pc' = after.pc
    /\ RunUnchanged

SaveScored ==
    /\ pc = "score_save"
    /\ \E raises \in BOOLEAN :
          LET after == Written("score", "scored.csv", "correlate",
                               {"debug_merged_data.txt"}, raises)
          IN  trace' = after.trace /\ files' = after.files /\ pc' = after.pc
    /\ RunUnchanged

\* build_graph up to the metrics
RunCorrelate ==
    /\ pc = "correlate"
    /\ \E raises \in BOOLEAN :
          LET after == Computed("correlate", "correlate_save", {}, raises)
          IN  trace' = after.trace /\ files' = after.files /\ pc' = after.pc
    /\ RunUnchanged

\* _save_graph_data: the timestamped file, then graph.json
SaveGraph ==
    /\ pc = "correlate_save"
    /\ \E raises \in BOOLEAN :
          LET after == Written("correlate", "correlation_graph.json",
                               "correlate_save_api", {}, raises)
          IN  trace' = after.trace /\ files' = after.files /\ pc' = after.pc
    /\ RunUnchanged

SaveGraphApi ==
    /\ pc = "correlate_save_api"
    /\ \E raises \in BOOLEAN :
          LET after == Written("correlate", "graph.json", "report", {}, raises)
          IN  trace' = after.trace /\ files' = after.files /\ pc' = after.pc
    /\ RunUnchanged

\* generate_all_reports: the reports one after the other; an exception ends
\* them, is logged and not raised again, and run_pipeline returns
RunReport ==
    /\ pc = "report"
    /\ \E written \in 0..Len(OutputFiles.report) :
          /\ files' = files \cup {OutputFiles.report[i] : i \in 1..written}
          /\ trace' = trace \o <<Started("report"),
                                 IF written = Len(OutputFiles.report)
                                 THEN Completed("report") ELSE Failed("report")>>
    /\ pc' = "returned"
    /\ RunUnchanged

NextStage ==
    \/ RunCollect
    \/ RunNormalize \/ SaveNormalized
    \/ RunEnrich \/ SaveEnriched
    \/ RunMerge \/ SaveMerged
    \/ RunScore \/ SaveScored
    \/ RunCorrelate \/ SaveGraph \/ SaveGraphApi
    \/ RunReport

SpecRun == InitRun /\ [][NextStage]_vars

----------------------------------------------------------------------------
(* Claims about the run of the pipeline *)

\* the stages called so far, in the order of their calls
StagesStarted ==
    LET calls == SelectSeq(trace, LAMBDA event : event[2] = "started")
    IN  [i \in 1..Len(calls) |-> calls[i][1]]

\* the stages are called in the order of Stages, each right after the stage
\* before it has done its work
StagesInOrder ==
    /\ Len(StagesStarted) <= Len(Stages)
    /\ \A i \in 1..Len(StagesStarted) : StagesStarted[i] = Stages[i]
    /\ \A i \in 2..Len(trace) :
          trace[i][2] = "started" =>
              trace[i - 1] = Completed(Stages[StageRank(trace[i][1]) - 1])

\* a stage that fails is the last thing the run does, and the run raises
FailureEndsRun ==
    \A i \in 1..Len(trace) :
        trace[i][2] = "failed" => i = Len(trace) /\ pc = "raised"

\* the run returns only with every stage done
ReturnsOnlyWhenComplete ==
    pc = "returned" => \A i \in 1..Len(Stages) : Completed(Stages[i]) \in Range(trace)

\* C24: in every run the stages execute in the order collect, normalize,
\* enrich, merge, score, correlate, report, each starting only after the one
\* before returned; when a stage fails no later stage executes and
\* run_pipeline raises, so run_pipeline returns normally only when every
\* stage, reporting included, completed.
C24_StagesInOrderOrRunRaises ==
    /\ StagesInOrder
    /\ FailureEndsRun
    /\ ReturnsOnlyWhenComplete

\* what does hold: the failure of a stage before reporting ends the run
FailureBeforeReportEndsRun ==
    \A i \in 1..Len(trace) :
        (trace[i][2] = "failed" /\ trace[i][1] # "report") =>
            i = Len(trace) /\ pc = "raised"

\* the output files of a stage that is still computing are not written
NothingWrittenWhileComputing ==
    \A stage \in {"merge", "score", "correlate"} :
        pc = stage => Range(OutputFiles[stage]) \cap files = {}

\* C25: a stage writes its output only after it has its complete result in
\* memory: merge, score and correlation write nothing while they are still
\* computing, and a stage that fails partway leaves none of its output files
\* created or changed (for correlation, neither the timestamped graph file
\* nor graph.json).
C25_NoOutputOfFailedStage ==
    /\ NothingWrittenWhileComputing
    /\ \A stage \in {"merge", "score", "correlate"} :
          Failed(stage) \in Range(trace) => Range(OutputFiles[stage]) \cap files = {}

----------------------------------------------------------------------------
(* Claims about empty input *)

\* process was called with an empty batch and returned an empty dataset
EmptyBatchMerged ==
    (pc \in {"merged", "raised"} /\ batch = <<>>) =>
        pc = "merged" /\ Empty(merged_data)

\* calculate_scores was called with an empty dataset and returned an empty one
EmptyBatchScored ==
    (pc \in {"scored", "score_raised"} /\ score_batch = <<>>) =>
        pc = "scored" /\ Empty(scored_data)

\* build_graph was called with an empty dataset and returned empty metrics
EmptyDatasetBuilt ==
    (pc \in CorrelatorPositions \ {"correlating", "correlating_again"} /\ dataset = <<>>) =>
        /\ pc \in {"built", "built_again"}
        /\ metrics = <<>>
        /\ DOMAIN graph.nodes = {}
        /\ DOMAIN graph.edges = {}

\* C26: an empty input dataset gives an explicit empty result and no
\* exception: process returns an empty dataset, calculate_scores an empty
\* scored dataset, build_graph empty metrics and a graph of zero nodes and
\* zero edges.
C26_EmptyInputGivesEmptyResult ==
    /\ EmptyBatchMerged
    /\ EmptyBatchScored
    /\ EmptyDatasetBuilt

----------------------------------------------------------------------------
(* Claims about the order of the input of the merge *)

\* the orders a batch of n records can be handed over in
InputOrders(n) ==
    {p \in [1..n -> 1..n] : \A i, j \in 1..n : p[i] = p[j] => i = j}

Permuted(records, p) == [i \in 1..Len(records) |-> records[p[i]]]

\* the fields of a merged record the order of the input must not change,
\* sources and tags as sets
OrderFree(row) ==
    [indicator |-> row.indicator, type |-> row.type,
     sources |-> Range(row.sources), source_count |-> row.source_count,
     confidence |-> row.confidence, severity |-> row.severity,
     tags |-> row.tags,
     first_seen |-> row.first_seen, last_seen |-> row.last_seen,
     asn |-> row.asn, country |-> row.country, organization |-> row.organization]

OrderFreeRecords(df) == {OrderFree(df.rows[i]) : i \in 1..Len(df.rows)}

\* C27: the merge output does not depend on the order of the input records:
\* every permutation of the batch gives the same set of merged records, each
\* with the same set of sources, source_count, confidence, severity, set of
\* tags, first_seen, last_seen, asn, country and organization.
C27_MergeIgnoresInputOrder ==
    pc \in {"merged", "raised"} =>
        \A p \in InputOrders(Len(batch)) :
            LET df == DataFrame(Permuted(batch, p))
            IN  IF pc = "raised" THEN process_raises(df)
                ELSE /\ ~process_raises(df)
                     /\ OrderFreeRecords(process(df)) = OrderFreeRecords(merged_data)

\* a group of three records from different sources that differ in asn, tags
\* and confidence was merged
C27_Witness ==
    /\ Merged
    /\ Len(batch) = 3
    /\ Len(merged_data.rows) = 1
    /\ merged_data.rows[1].source_count >= 2
    /\ \E i, j \in 1..Len(batch) :
          /\ {"asn", "tags", "confidence"} \subseteq DOMAIN batch[i] \cap DOMAIN batch[j]
          /\ batch[i].asn # batch[j].asn
          /\ batch[i].tags # batch[j].tags
          /\ batch[i].confidence # batch[j].confidence

----------------------------------------------------------------------------
(* Claims about the attributes of linked nodes *)

\* the node attribute a kind of relationship is about
KindAttribute == [same_asn |-> "asn", same_country |-> "country", same_org |-> "organization"]

\* C28: for every edge of the built graph and every (kind, value) entry of
\* its relationships, both endpoint nodes carry the value in the attribute of
\* the kind; an edge is never attached to a node of another type that only
\* has the same indicator string.
C28_EndpointsCarryRelationshipValue ==
    Built => \A edge \in DOMAIN graph.edges :
        \A k \in 1..Len(graph.edges[edge].relationships) :
            LET entry == graph.edges[edge].relationships[k]
            IN  \A node \in edge : graph.nodes[node][KindAttribute[entry[1]]] = entry[2]

----------------------------------------------------------------------------
(* Claims about the type of a normalized record *)

\* the sources whose mapper sets the type 'ip' without detecting it
FixedTypeSources == {"greynoise", "shodan", "abuseipdb"}

\* C29: a record of a mapper that detects the type (alienvault, virustotal,
\* the generic mapper of the other sources) has the type
\* detect_indicator_type gives for the record's own indicator; a generic
\* record whose indicator came from the ip or domain field is typed ip or
\* domain, not unknown.
C29_TypeDetectedFromOwnIndicator ==
    Normalized => \A i \in 1..Len(normalized_data.rows) :
        LET row == normalized_data.rows[i]
        IN  row.source \notin FixedTypeSources =>
                row.type = detect_indicator_type(row.indicator)

\* what does hold: the type is the one detected for the item's indicator (or
\* id) field, '' when the field is absent
TypeDetectedFromIndicatorField ==
    Normalized => \A i \in 1..Len(normalized_data.rows) :
        LET row == normalized_data.rows[i]
            field == IF row.source = "virustotal" THEN "id" ELSE "indicator"
        IN  row.source \notin FixedTypeSources =>
                row.type = detect_indicator_type(Get(row.raw_data, field, JInd(<<>>)).chars)

----------------------------------------------------------------------------
(* Claims about the threat context of the enrichment *)

\* the severity of record i was not lowered by the enrichment
SeverityKept(i) ==
    SeverityRank(enriched_data.rows[i].severity)
        >= SeverityRank(normalized_data.rows[i].severity)

\* the confidence of record i was not lowered by the enrichment
ConfidenceKept(i) ==
    enriched_data.rows[i].confidence >= normalized_data.rows[i].confidence

\* C30: the threat-context step never lowers severity or confidence: the
\* severity of every record after it is at least the one before on the scale
\* low < medium < high < critical, also for indicators seen in three or more
\* sources, and the confidence after is at least the confidence before.
C30_ThreatContextNeverLowers ==
    pc = "enriched" => \A i \in 1..Len(enriched_data.rows) :
        SeverityKept(i) /\ ConfidenceKept(i)

\* the confidence is lowered for no record whose confidence was not negative
ConfidenceKeptWhenNonNegative ==
    pc = "enriched" => \A i \in 1..Len(enriched_data.rows) :
        normalized_data.rows[i].confidence >= 0 => ConfidenceKept(i)

\* the severity is lowered for no record of an indicator seen in fewer than
\* three sources
SeverityKeptBelowThreeSources ==
    pc = "enriched" => \A i \in 1..Len(enriched_data.rows) :
        source_counts(normalized_data, normalized_data.rows[i].indicator) < 3
            => SeverityKept(i)

=============================================================================
